---------------------------- MODULE Spec2Model ----------------------------
(***************************************************************************)
(* A model of the FastAPI multi-bot scraper server: the API-key layer      *)
(* (app/core/security.py, app/middleware/api_key.py, app/api/v1/auth.py),  *)
(* the items/users CRUD endpoints (app/api/v1/items.py, users.py) and the  *)
(* bot registry persistence (app/services/bot_manager.py).                 *)
(*                                                                         *)
(* Python str values are sequences of code points, bytes values are        *)
(* sequences of 0..255, Optional[T] is a record [some, v].                 *)
(***************************************************************************)
EXTENDS Integers, Sequences, FiniteSets, TLC

(***************************************************************************)
(* Optional values and small sequence helpers                              *)
(***************************************************************************)
None == [some |-> FALSE, v |-> <<>>]
Some(x) == [some |-> TRUE, v |-> x]

\* a step inside a try block: F applied to what the step before returned,
\* the exception (None) passed on
Try(o, F(_)) == IF o.some THEN F(o.v) ELSE None

SeqFrom(s, i) == IF i > Len(s) THEN <<>> ELSE SubSeq(s, i, Len(s))
SeqTo(s, n) == IF n >= Len(s) THEN s ELSE IF n <= 0 THEN <<>> ELSE SubSeq(s, 1, n)
Rep(n, c) == [i \in 1..n |-> c]
Range(s) == {s[i] : i \in 1..Len(s)}
SetMin(S) == CHOOSE x \in S : \A y \in S : x <= y
SetMax(S) == CHOOSE x \in S : \A y \in S : x >= y

(***************************************************************************)
(* str.encode() / bytes.decode(): UTF-8.  A str is a sequence of code      *)
(* points, a bytes a sequence of 0..255.  str.encode() raises on a lone    *)
(* surrogate, bytes.decode() on an ill-formed sequence; None is the        *)
(* exception raised.                                                       *)
(***************************************************************************)
IsSurrogate(c) == c >= 55296 /\ c <= 57343

Utf8Char(c) ==
  IF c < 128 THEN <<c>>
  ELSE IF c < 2048 THEN <<192 + (c \div 64), 128 + (c % 64)>>
  ELSE IF c < 65536
  THEN <<224 + (c \div 4096), 128 + ((c \div 64) % 64), 128 + (c % 64)>>
  ELSE <<240 + (c \div 262144), 128 + ((c \div 4096) % 64),
         128 + ((c \div 64) % 64), 128 + (c % 64)>>

RECURSIVE Utf8Concat(_, _, _)
Utf8Concat(s, lo, hi) ==
  IF lo > hi THEN <<>>
  ELSE IF lo = hi THEN Utf8Char(s[lo])
  ELSE Utf8Concat(s, lo, (lo + hi) \div 2) \o Utf8Concat(s, (lo + hi) \div 2 + 1, hi)

Utf8Encode(s) ==
  IF \E i \in 1..Len(s) : IsSurrogate(s[i]) THEN None
  ELSE IF \A i \in 1..Len(s) : s[i] < 128 THEN Some(s)
  ELSE Some(Utf8Concat(s, 1, Len(s)))

IsCont(b) == b >= 128 /\ b < 192

\* the length of the sequence a byte opens; 0: it opens none
Utf8Width(b) ==
  IF b < 128 THEN 1
  ELSE IF b >= 194 /\ b < 224 THEN 2
  ELSE IF b >= 224 /\ b < 240 THEN 3
  ELSE IF b >= 240 /\ b < 245 THEN 4
  ELSE 0

Utf8Decode(bs) ==
  LET n == Len(bs)
      wellFormedAt(i) ==
        LET w == Utf8Width(bs[i])
        IN /\ w > 0
           /\ i + w - 1 <= n
           /\ \A j \in (i + 1)..(i + w - 1) : IsCont(bs[j])
           /\ i + w <= n => ~IsCont(bs[i + w])
           /\ bs[i] = 224 => bs[i + 1] >= 160
           /\ bs[i] = 237 => bs[i + 1] < 160
           /\ bs[i] = 240 => bs[i + 1] >= 144
           /\ bs[i] = 244 => bs[i + 1] < 144
      wellFormed ==
        /\ n > 0 => ~IsCont(bs[1])
        /\ \A i \in 1..n : IsCont(bs[i]) \/ wellFormedAt(i)
      starts == SelectSeq([i \in 1..n |-> i], LAMBDA i : ~IsCont(bs[i]))
      cont(i) == bs[i] - 128
  IN IF ~wellFormed THEN None
     ELSE Some([k \in 1..Len(starts) |->
                 LET i == starts[k]
                     w == Utf8Width(bs[i])
                 IN IF w = 1 THEN bs[i]
                    ELSE IF w = 2 THEN (bs[i] - 192) * 64 + cont(i + 1)
                    ELSE IF w = 3
                    THEN (bs[i] - 224) * 4096 + cont(i + 1) * 64 + cont(i + 2)
                    ELSE (bs[i] - 240) * 262144 + cont(i + 1) * 4096
                         + cont(i + 2) * 64 + cont(i + 3)])

(***************************************************************************)
(* base64.urlsafe_b64encode / urlsafe_b64decode as CPython implements      *)
(* them.  The decoder is the non-strict binascii.a2b_base64: it skips      *)
(* every character outside the alphabet, stops at the pad that completes   *)
(* a quad (ignoring whatever follows) and raises only when the data        *)
(* characters read do not fill their last quad.                            *)
(***************************************************************************)
PadChar == 61

StdChar(v) ==
  IF v < 26 THEN 65 + v
  ELSE IF v < 52 THEN 97 + (v - 26)
  ELSE IF v < 62 THEN 48 + (v - 52)
  ELSE IF v = 62 THEN 43 ELSE 47

\* binascii's table_a2b_base64: 64 for a character outside the alphabet
StdIndex(c) ==
  IF c >= 65 /\ c <= 90 THEN c - 65
  ELSE IF c >= 97 /\ c <= 122 THEN c - 97 + 26
  ELSE IF c >= 48 /\ c <= 57 THEN c - 48 + 52
  ELSE IF c = 43 THEN 62
  ELSE IF c = 47 THEN 63
  ELSE 64

\* character k of the encoding: quad g covers bytes 3g+1..3g+3
b64encode(bs) ==
  LET n == Len(bs)
      B(i) == IF i <= n THEN bs[i] ELSE 0
  IN [k \in 1..(4 * ((n + 2) \div 3)) |->
       LET g == (k - 1) \div 4
           r == (k - 1) % 4
           b1 == B(3 * g + 1)
           b2 == B(3 * g + 2)
           b3 == B(3 * g + 3)
       IN IF r = 0 THEN StdChar(b1 \div 4)
          ELSE IF r = 1 THEN StdChar((b1 % 4) * 16 + (b2 \div 16))
          ELSE IF r = 2
          THEN IF 3 * g + 2 > n THEN PadChar
               ELSE StdChar((b2 % 16) * 4 + (b3 \div 64))
          ELSE IF 3 * g + 3 > n THEN PadChar ELSE StdChar(b3 % 64)]

UrlsafeEncodeTranslation(c) == IF c = 43 THEN 45 ELSE IF c = 47 THEN 95 ELSE c
UrlsafeDecodeTranslation(c) == IF c = 45 THEN 43 ELSE IF c = 95 THEN 47 ELSE c

urlsafe_b64encode(bs) ==
  LET e == b64encode(bs) IN [i \in 1..Len(e) |-> UrlsafeEncodeTranslation(e[i])]

\* The decoding loop, position by position.  At a pad at position i the loop
\* has read DataBefore(i) data characters (quad_pos is that number mod 4) and
\* PadsBefore(i) pads since the last of them; it stops there when
\* quad_pos >= 2 and quad_pos + pads + 1 >= 4.
a2b_base64(s) ==
  LET n == Len(s)
      IsData(c) == StdIndex(c) < 64
      DataBefore(i) == Cardinality({j \in 1..(i - 1) : IsData(s[j])})
      LastData(i) == SetMax({0} \cup {j \in 1..(i - 1) : IsData(s[j])})
      PadsBefore(i) ==
        Cardinality({k \in (LastData(i) + 1)..(i - 1) : s[k] = PadChar})
      Stops(i) ==
        /\ s[i] = PadChar
        /\ DataBefore(i) % 4 >= 2
        /\ (DataBefore(i) % 4) + PadsBefore(i) + 1 >= 4
      stops == {i \in 1..n : Stops(i)}
      stop == IF stops = {} THEN n + 1 ELSE SetMin(stops)
      data == SelectSeq(SeqTo(s, stop - 1), IsData)
      d(i) == StdIndex(data[i])
      quad_pos == Len(data) % 4
      nbytes == 3 * (Len(data) \div 4)
                + (IF quad_pos = 2 THEN 1 ELSE IF quad_pos = 3 THEN 2 ELSE 0)
  IN IF stops = {} /\ quad_pos # 0 THEN None
     ELSE Some([j \in 1..nbytes |->
                 LET g == 4 * ((j - 1) \div 3)
                     r == (j - 1) % 3
                 IN IF r = 0 THEN d(g + 1) * 4 + (d(g + 2) \div 16)
                    ELSE IF r = 1 THEN (d(g + 2) % 16) * 16 + (d(g + 3) \div 4)
                    ELSE (d(g + 3) % 4) * 64 + d(g + 4)])

urlsafe_b64decode(bs) ==
  a2b_base64([i \in 1..Len(bs) |-> UrlsafeDecodeTranslation(bs[i])])

(***************************************************************************)
(* hashlib.sha256 and AESGCM (cryptography).  The digest is abstracted to  *)
(* a number, the cipher to an ideal AEAD: a keystream added to the         *)
(* plaintext bytes and a 16-byte tag that is a function of key, nonce and  *)
(* ciphertext.  Decryption raises (None) on a nonce outside 8..128 bytes,  *)
(* on data shorter than the tag, and on a tag that does not match.         *)
(***************************************************************************)
HashMod == 65521
TAG_SIZE == 16

\* a positional checksum of bs[lo..hi], summed by halves
RECURSIVE WSum(_, _, _)
WSum(bs, lo, hi) ==
  IF lo > hi THEN 0
  ELSE IF lo = hi THEN ((bs[lo] + 1) * (((lo * 131 + lo * lo * 7) % 250) + 1)) % HashMod
  ELSE (WSum(bs, lo, (lo + hi) \div 2) + WSum(bs, (lo + hi) \div 2 + 1, hi)) % HashMod

Digest(bs, seed) == (WSum(bs, 1, Len(bs)) + 977 * Len(bs) + seed) % HashMod

sha256(bs) == Digest(bs, 7)

\* the keystream of (key, nonce): byte i is (KeyStream + 17 * i) % 256
KeyStream(key, nonce) == (key + 31 * Digest(nonce, 1)) % 256

GcmTag(key, nonce, ct) ==
  LET h == Digest(ct, (Digest(nonce, key) * 3) % HashMod)
  IN [j \in 1..TAG_SIZE |->
       ((h \div (IF j % 2 = 1 THEN 1 ELSE 256)) + j * (key % 251)) % 256]

AESGCM_encrypt(key, nonce, data) ==
  LET ks == KeyStream(key, nonce)
      ct == [i \in 1..Len(data) |-> (data[i] + ks + 17 * i) % 256]
  IN ct \o GcmTag(key, nonce, ct)

AESGCM_decrypt(key, nonce, data) ==
  IF Len(nonce) < 8 \/ Len(nonce) > 128 THEN None
  ELSE IF Len(data) < TAG_SIZE THEN None
  ELSE LET ks == KeyStream(key, nonce)
           ct == SeqTo(data, Len(data) - TAG_SIZE)
           tag == SeqFrom(data, Len(data) - TAG_SIZE + 1)
       IN IF tag # GcmTag(key, nonce, ct) THEN None
          ELSE Some([i \in 1..Len(ct) |-> (ct[i] - ks - 17 * i + 17 * 256) % 256])

\* the keystream taken off, whatever the tag
AES_decrypt_unauthenticated(key, nonce, data) ==
  LET ks == KeyStream(key, nonce)
      ct == SeqTo(data, Len(data) - TAG_SIZE)
  IN Some([i \in 1..Len(ct) |-> (ct[i] - ks - 17 * i + 17 * 256) % 256])

(***************************************************************************)
(* APIKeyEncryption (app/core/security.py).  An instance is its secret;    *)
(* the nonce os.urandom returns is a parameter.                            *)
(***************************************************************************)
NONCE_SIZE == 12

_derive_key(secret_key) == sha256(Utf8Encode(secret_key).v)

\* encrypt has no handler of its own: None stands for the exception
\* plaintext.encode() raises
encrypt(secret_key, plaintext, nonce) ==
  Try(Utf8Encode(plaintext),
      LAMBDA pt : Utf8Decode(urlsafe_b64encode(
                    nonce \o AESGCM_encrypt(_derive_key(secret_key), nonce, pt))))

\* decrypt with the ciphertext taken one byte late: data[NONCE_SIZE + 1:]
decrypt_off_by_one(secret_key, encrypted) ==
  Try(Try(Try(Utf8Encode(encrypted), urlsafe_b64decode),
          LAMBDA data : AESGCM_decrypt(_derive_key(secret_key),
                                       SeqTo(data, NONCE_SIZE),
                                       SeqFrom(data, NONCE_SIZE + 2))),
      Utf8Decode)

\* decrypt with a cipher that checks no tag
decrypt_unauthenticated(secret_key, encrypted) ==
  Try(Try(Try(Utf8Encode(encrypted), urlsafe_b64decode),
          LAMBDA data : AES_decrypt_unauthenticated(_derive_key(secret_key),
                                                    SeqTo(data, NONCE_SIZE),
                                                    SeqFrom(data, NONCE_SIZE + 1))),
      Utf8Decode)

\* every exception inside the try block is caught and answered None
decrypt(secret_key, encrypted) ==
  Try(Try(Try(Utf8Encode(encrypted), urlsafe_b64decode),
          LAMBDA data : AESGCM_decrypt(_derive_key(secret_key),
                                       SeqTo(data, NONCE_SIZE),
                                       SeqFrom(data, NONCE_SIZE + 1))),
      Utf8Decode)

(***************************************************************************)
(* Settings (app/core/config.py) and the literals of the requests          *)
(***************************************************************************)
startswith(s, p) == Len(p) <= Len(s) /\ SubSeq(s, 1, Len(p)) = p

IsSpace(c) == c \in {32, 9, 10, 13}

RECURSIVE lstrip(_)
lstrip(s) == IF s # <<>> /\ IsSpace(s[1]) THEN lstrip(Tail(s)) ELSE s

RECURSIVE rstrip(_)
rstrip(s) ==
  IF s # <<>> /\ IsSpace(s[Len(s)]) THEN rstrip(SubSeq(s, 1, Len(s) - 1)) ELSE s

strip(s) == rstrip(lstrip(s))

\* str.split(","): the pieces between the commas, cur the piece being read
RECURSIVE split(_, _, _)
split(s, sep, cur) ==
  IF s = <<>> THEN <<cur>>
  ELSE IF s[1] = sep THEN <<cur>> \o split(Tail(s), sep, <<>>)
  ELSE split(Tail(s), sep, Append(cur, s[1]))

\* "dev-key-123,test-key-456"
VALID_API_KEYS == <<100, 101, 118, 45, 107, 101, 121, 45, 49, 50, 51, 44, 116, 101, 115, 116, 45, 107, 101, 121, 45, 52, 53, 54>>

get_valid_api_keys ==
  LET parts == split(VALID_API_KEYS, 44, <<>>)
  IN {strip(parts[i]) : i \in {j \in 1..Len(parts) : strip(parts[j]) # <<>>}}

\* the secret of this deployment and the secret of another one
API_KEY_SECRET == <<115, 51, 99, 114, 51, 116>>
OTHER_SECRET == <<48, 116, 104, 101, 114>>

\* "/api/v1"
API_V1_PREFIX == <<47, 97, 112, 105, 47, 118, 49>>

\* "/", "/health", "/docs", "/redoc", "/openapi.json", "/favicon.ico"
EXEMPT_PATHS ==
  << <<47>>,
     <<47, 104, 101, 97, 108, 116, 104>>,
     <<47, 100, 111, 99, 115>>,
     <<47, 114, 101, 100, 111, 99>>,
     <<47, 111, 112, 101, 110, 97, 112, 105, 46, 106, 115, 111, 110>>,
     <<47, 102, 97, 118, 105, 99, 111, 110, 46, 105, 99, 111>> >>

\* generate_api_key(prefix="sk", length=32): token is secrets.token_hex(length)
generate_api_key_str(token) == <<115, 107, 95>> \o token

(***************************************************************************)
(* Bounds and the inputs drawn from them                                   *)
(***************************************************************************)
MaxTokens == 1

\* os.urandom(NONCE_SIZE): two samples, each NONCE_SIZE equal bytes
NonceBytes == {16, 32}
Nonces == {Rep(NONCE_SIZE, b) : b \in NonceBytes}

\* secrets.token_hex(32): 64 hexadecimal digits
TOKEN_BYTES == 32
Tokens == {Rep(2 * TOKEN_BYTES, 96 + d) : d \in 1..MaxTokens}

\* "dev-key-123", "invalid-key-12345", "invalid-base64-data!!!" (tests/test_api.py)
DevKey == <<100, 101, 118, 45, 107, 101, 121, 45, 49, 50, 51>>
InvalidKey == <<105, 110, 118, 97, 108, 105, 100, 45, 107, 101, 121, 45, 49, 50, 51, 52, 53>>
\* "k\u00e9": a key outside ASCII
KE == <<107, 233>>
InvalidBase64 == <<105, 110, 118, 97, 108, 105, 100, 45, 98, 97, 115, 101, 54, 52, 45, 100, 97, 116, 97, 33, 33, 33>>

\* what a client can do to a ciphertext x before presenting it
TamperKinds ==
  {"none", "append_junk", "insert_space", "std_alphabet", "append_pad",
   "trailing_bits", "drop_last", "drop_quad", "flip_first", "flip_last"}

OtherChar(c) == IF c = 65 THEN 66 ELSE 65

\* the last data character of x, moved to the next alphabet character: the
\* same bytes when x ends with a pad (the bits changed are not decoded)
BumpLastData(x) ==
  LET k == IF x[Len(x)] # PadChar THEN Len(x)
           ELSE IF x[Len(x) - 1] # PadChar THEN Len(x) - 1 ELSE Len(x) - 2
      v == StdIndex(UrlsafeDecodeTranslation(x[k]))
  IN [x EXCEPT ![k] = UrlsafeEncodeTranslation(StdChar((v + 1) % 64))]

Tamper(kind, x) ==
  CASE kind = "none" -> x
    [] kind = "append_junk" -> x \o <<33>>
    [] kind = "insert_space" -> SeqTo(x, 4) \o <<32>> \o SeqFrom(x, 5)
    [] kind = "std_alphabet" ->
         [i \in 1..Len(x) |-> UrlsafeDecodeTranslation(x[i])]
    [] kind = "append_pad" -> x \o <<PadChar>>
    [] kind = "trailing_bits" -> BumpLastData(x)
    [] kind = "drop_last" -> SeqTo(x, Len(x) - 1)
    [] kind = "drop_quad" -> SeqTo(x, Len(x) - 4)
    [] kind = "flip_first" -> [x EXCEPT ![1] = OtherChar(x[1])]
    [] kind = "flip_last" -> [x EXCEPT ![Len(x) - 4] = OtherChar(x[Len(x) - 4])]


(***************************************************************************)
(* encrypt and decrypt over the strings the model draws, computed once:    *)
(* Encrypted and Decrypted are encrypt and decrypt, read from a table when *)
(* the argument is in it and computed directly otherwise.                  *)
(***************************************************************************)
ZeroNonce == Rep(NONCE_SIZE, 0)

PlainUniverse ==
  {DevKey, <<>>, KE, <<55296>>} \cup {generate_api_key_str(t) : t \in Tokens}

EncryptTable ==
  [a \in {<<s, p, n>> : s \in {API_KEY_SECRET, OTHER_SECRET}, p \in PlainUniverse,
                           n \in Nonces \cup {ZeroNonce}}
     |-> encrypt(a[1], a[2], a[3])]

\* table[x] when x is in the table, the value computed directly otherwise
Lookup(table, x, direct) == IF x \in DOMAIN table THEN table[x] ELSE direct

Encrypted(secret_key, plaintext, nonce) ==
  Lookup(EncryptTable, <<secret_key, plaintext, nonce>>,
         encrypt(secret_key, plaintext, nonce))

Encryptable == {p \in PlainUniverse : Utf8Encode(p).some}

CipherUniverse ==
  {InvalidBase64, InvalidKey, <<>>} \cup PlainUniverse
  \cup {EncryptTable[<<OTHER_SECRET, p, ZeroNonce>>].v : p \in Encryptable}
  \cup {Tamper(k, EncryptTable[<<API_KEY_SECRET, p, n>>].v) :
          k \in TamperKinds, p \in Encryptable, n \in Nonces \cup {ZeroNonce}}

DecryptTable == [x \in CipherUniverse |-> decrypt(API_KEY_SECRET, x)]

Decrypted(secret_key, encrypted) ==
  IF secret_key = API_KEY_SECRET
  THEN Lookup(DecryptTable, encrypted, decrypt(secret_key, encrypted))
  ELSE decrypt(secret_key, encrypted)

(***************************************************************************)
(* APIKeyValidator (app/core/security.py): keys is _valid_keys, env is     *)
(* settings.ENVIRONMENT.  The result is the tuple (is_valid, key).         *)
(***************************************************************************)
\* validate, from "if decrypted:" on; decrypted is None for encrypted=False
validate_decrypted(keys, env, api_key, decrypted) ==
  LET \* "if decrypted": None and the empty string are both falsy
      decrypted_key == IF decrypted.some /\ decrypted.v # <<>>
                       THEN decrypted.v ELSE api_key
      is_valid == \/ decrypted_key \in keys
                  \/ (env = "development" /\ api_key \in keys)
  IN [is_valid |-> is_valid,
      key |-> IF is_valid THEN Some(decrypted_key) ELSE None]

validate(keys, env, api_key, encrypted) ==
  validate_decrypted(keys, env, api_key,
                     IF encrypted THEN Decrypted(API_KEY_SECRET, api_key) ELSE None)

add_key(keys, key) == keys \cup {key}

\* remove_key that forgets to discard
remove_key_kept(keys, key) == keys

remove_key(keys, key) == keys \ {key}

(***************************************************************************)
(* Route handlers of app/api/v1/auth.py and app/main.py.  Each answers     *)
(* [status, message, body, handler, keys]: keys is _valid_keys afterwards. *)
(***************************************************************************)
Answer(status, message, body, handler, keys) ==
  [status |-> status, message |-> message, body |-> body,
   handler |-> handler, keys |-> keys]

NoBody == [none |-> TRUE]

\* the response of generate_api_key, given the key and its encrypted form
generate_api_key_response(keys, name, plain_key, encrypted_key) ==
  Answer(201, "", [name |-> name, key_plain |-> plain_key,
                   key_encrypted |-> encrypted_key.v],
         "generate_api_key", add_key(keys, plain_key))

generate_api_key(keys, env, name, token, nonce) ==
  generate_api_key_response(
    keys, name, generate_api_key_str(token),
    Encrypted(API_KEY_SECRET, generate_api_key_str(token), nonce))

\* encrypt raises on a key it cannot encode: the server answers 500
encrypt_api_key_response(keys, plain_key, encrypted) ==
  IF ~encrypted.some
  THEN Answer(500, "Internal Server Error", NoBody, "encrypt_api_key", keys)
  ELSE Answer(200, "", [plain_key |-> plain_key, encrypted_key |-> encrypted.v],
              "encrypt_api_key", keys)

encrypt_api_key(keys, env, plain_key, nonce) ==
  encrypt_api_key_response(keys, plain_key,
                           Encrypted(API_KEY_SECRET, plain_key, nonce))

decrypt_api_key_response(keys, env, decrypted) ==
  IF ~decrypted.some
  THEN Answer(400, "Failed to decrypt API key. It may be invalid or corrupted.",
              NoBody, "decrypt_api_key", keys)
  ELSE Answer(200, "",
              [decrypted_key |-> decrypted.v,
               is_valid |-> validate(keys, env, decrypted.v, FALSE).is_valid],
              "decrypt_api_key", keys)

decrypt_api_key(keys, env, encrypted_key) ==
  decrypt_api_key_response(keys, env, Decrypted(API_KEY_SECRET, encrypted_key))

validate_api_key(keys, env, api_key, encrypted) ==
  Answer(200, "",
         [is_valid |-> validate(keys, env, api_key, encrypted).is_valid,
          key_type |-> IF encrypted THEN "encrypted" ELSE "plain"],
         "validate_api_key", keys)

revoke_api_key(keys, env, plain_key) ==
  Answer(200, "API key revoked successfully", NoBody, "revoke_api_key",
         remove_key(keys, plain_key))

health_check(keys, env) ==
  Answer(200, "", [status |-> "healthy", environment |-> env], "health_check", keys)

(***************************************************************************)
(* The router: include_router(api_v1_router, prefix=API_V1_PREFIX)         *)
(***************************************************************************)
\* "/health"
P_health == <<47, 104, 101, 97, 108, 116, 104>>
\* "/healthz": no route, exempt by its prefix
P_healthz == <<47, 104, 101, 97, 108, 116, 104, 122>>
\* "/auth/keys/generate" and the other routes of the auth router
P_generate == API_V1_PREFIX \o <<47, 97, 117, 116, 104, 47, 107, 101, 121, 115, 47, 103, 101, 110, 101, 114, 97, 116, 101>>
P_encrypt == API_V1_PREFIX \o <<47, 97, 117, 116, 104, 47, 107, 101, 121, 115, 47, 101, 110, 99, 114, 121, 112, 116>>
P_decrypt == API_V1_PREFIX \o <<47, 97, 117, 116, 104, 47, 107, 101, 121, 115, 47, 100, 101, 99, 114, 121, 112, 116>>
P_validate == API_V1_PREFIX \o <<47, 97, 117, 116, 104, 47, 107, 101, 121, 115, 47, 118, 97, 108, 105, 100, 97, 116, 101>>
P_revoke == API_V1_PREFIX \o <<47, 97, 117, 116, 104, 47, 107, 101, 121, 115, 47, 114, 101, 118, 111, 107, 101>>

\* request: [method, path, header, arg]; rnd: what the handler draws at random
call_next(keys, env, request, rnd) ==
  LET m == request.method
      p == request.path
      a == request.arg
  IN IF m = "GET" /\ p = P_health THEN health_check(keys, env)
     ELSE IF m = "POST" /\ p = P_generate
     THEN generate_api_key(keys, env, a.name, rnd.token, rnd.nonce)
     ELSE IF m = "POST" /\ p = P_encrypt
     THEN encrypt_api_key(keys, env, a.plain_key, rnd.nonce)
     ELSE IF m = "POST" /\ p = P_decrypt
     THEN decrypt_api_key(keys, env, a.encrypted_key)
     ELSE IF m = "POST" /\ p = P_validate
     THEN validate_api_key(keys, env, a.api_key, a.encrypted)
     ELSE IF m = "DELETE" /\ p = P_revoke
     THEN revoke_api_key(keys, env, a.plain_key)
     ELSE Answer(404, "Not Found", NoBody, "none", keys)

(***************************************************************************)
(* APIKeyMiddleware (app/middleware/api_key.py)                            *)
(***************************************************************************)
_is_exempt(path) ==
  \/ path \in Range(EXEMPT_PATHS)
  \/ \E i \in 1..Len(EXEMPT_PATHS) :
       startswith(path, EXEMPT_PATHS[i]) /\ EXEMPT_PATHS[i] # <<47>>

\* dispatch without the validation of the header it found
dispatch_unvalidated(keys, env, request, rnd) ==
  IF _is_exempt(request.path) THEN call_next(keys, env, request, rnd)
  ELSE IF ~request.header.some \/ request.header.v = <<>>
  THEN Answer(401, "Missing X-API-Key header", NoBody, "none", keys)
  ELSE call_next(keys, env, request, rnd)

\* request.header is request.headers.get("X-API-Key"): None when absent
dispatch(keys, env, request, rnd) ==
  IF _is_exempt(request.path) THEN call_next(keys, env, request, rnd)
  ELSE IF ~request.header.some \/ request.header.v = <<>>
  THEN Answer(401, "Missing X-API-Key header", NoBody, "none", keys)
  ELSE IF ~validate(keys, env, request.header.v, TRUE).is_valid
  THEN Answer(401, "Invalid API key", NoBody, "none", keys)
  ELSE call_next(keys, env, request, rnd)

(***************************************************************************)
(* State                                                                   *)
(***************************************************************************)
VARIABLES
  ENVIRONMENT,  \* settings.ENVIRONMENT, fixed when the process starts
  valid_keys,   \* api_key_validator._valid_keys
  client,       \* the key pair the API client obtained last (plain, encrypted)
  resp          \* the last request and the response it was given

VARIABLES
  items,        \* table "items": id -> row
  users,        \* table "users": id -> row
  uuid_count,   \* how many uuid4 primary keys were drawn
  now,          \* the database clock behind func.now()
  gone,         \* the rows the API client saw deleted: <<table, id>>
  reply         \* the last CRUD request and the response it was given

VARIABLES
  bots,         \* BotManager._bots: bot_id -> BotConfig
  config_file   \* the content of /app/data/bots.json (None: no file)

VARIABLES
  scraper,      \* the scraper instance a caller holds (game "none": no instance)
  open_drivers, \* the browser sessions started and not yet quit
  driver_count, \* how many browser sessions were started
  outcome       \* the last scraper or worker call and how it ended

VARIABLES
  background_tasks, \* the handle_update calls queued by the webhook, not yet run
  event             \* the last bot-API request and its answer, or the last update handled

VARIABLES
  lock_holder,  \* the request that holds BotManager._lock (0: nobody)
  lock_waiters, \* the requests waiting for the lock, in the order they arrived
  requests,     \* the bot-API requests in progress and where each one stands
  clients,      \* BotManager._clients: for each bot whether its HTTP client is
                \* open and which BotConfig object the client holds
  config_id     \* which BotConfig object BotManager._bots holds for each bot

VARIABLES
  limiter,      \* one bot's TelegramBotClient and the requests it made, by time
  scraping,     \* the scrapes that run for the users of the bots, and
                \* CommandHandler._scraping_tasks
  selenium,     \* the last call of SeleniumScraper: its URLs and what came of it
  signin        \* a login of a console scraper: where it stands and its counters

auth_vars == <<ENVIRONMENT, valid_keys, client>>
telegram_vars == <<background_tasks, event>>
race_vars == <<lock_holder, lock_waiters, requests, clients, config_id>>
service_vars == <<limiter, scraping, selenium, signin>>
crud_vars == <<items, users, uuid_count, now, gone, reply>>
bot_vars == <<bots, config_file>>
scraper_vars == <<scraper, open_drivers, driver_count, outcome>>
vars == <<ENVIRONMENT, valid_keys, client, resp, items, users, uuid_count, now,
          gone, reply, bots, config_file, scraper, open_drivers, driver_count,
          outcome, background_tasks, event, lock_holder, lock_waiters, requests,
          clients, config_id, limiter, scraping, selenium, signin>>

\* the tables empty and no bot registered: the state of a fresh deployment
NoReply == [op |-> "none", id |-> 0, data |-> <<>>, status |-> 0, body |-> <<>>]
IdleCrud ==
  /\ items = <<>> /\ users = <<>> /\ uuid_count = 0 /\ now = 0 /\ gone = {}
  /\ reply = NoReply
IdleBots == bots = <<>> /\ config_file = None

\* no scraper constructed, no browser started, no call made
NoScraper == [game |-> "none", driver |-> None, token |-> FALSE, creds |-> FALSE]
\* the arguments of a call, none of them given
NoArgs ==
  [fullname |-> None, requested_username |-> None, username |-> None,
   amount |-> None, action_type |-> "", configured |-> FALSE]
NoOutcome ==
  [call |-> "none", game |-> "none", args |-> NoArgs, exc |-> None,
   value |-> <<>>, sent |-> <<>>, started |-> {}]
IdleScrapers ==
  /\ scraper = NoScraper /\ open_drivers = {} /\ driver_count = 0
  /\ outcome = NoOutcome

\* no update queued, no bot-API request served, no update handled
NoUpdate == [user_id |-> None, is_bot |-> FALSE, text |-> <<>>]
NoEvent ==
  [kind |-> "none", route |-> "", bot_id |-> "", api_key |-> None, secret |-> None,
   body |-> <<>>, status |-> 0, detail |-> "", queued |-> FALSE, bot |-> None,
   update |-> NoUpdate, result |-> "", scraped |-> "none"]
IdleTelegram == background_tasks = {} /\ event = NoEvent

\* a client that has made no request, at time 0
NoLimiter ==
  [now |-> 0, ticks |-> 0, _request_times |-> <<>>, forwarded |-> <<>>,
   answer |-> "none"]

\* no scrape running, no task kept, no command handled
NoScraping ==
  [running |-> <<>>, _scraping_tasks |-> {},
   last |-> [kind |-> "none", bot_id |-> "", user_id |-> 0, answer |-> "none",
             before |-> 0, cancelled |-> FALSE]]

\* the scraper before its first call
NoSelenium ==
  [call |-> "none", sites |-> <<>>, results |-> <<>>, raised |-> FALSE,
   left_open |-> 0, answer |-> None]

\* no login called
NoSignin ==
  [scraper |-> "none", pc |-> "idle", driver |-> "none", attempt |-> 0, i |-> 0,
   rounds |-> 0, capsolver |-> 0, twocaptcha |-> 0, polls |-> 0,
   restart |-> FALSE, at_dashboard |-> FALSE, returned |-> "none"]

IdleServices ==
  /\ limiter = NoLimiter /\ scraping = NoScraping /\ selenium = NoSelenium
  /\ signin = NoSignin

\* no request in progress, the lock free
IdleRace ==
  /\ lock_holder = 0 /\ lock_waiters = <<>> /\ requests = <<>>
  /\ clients = <<>> /\ config_id = <<>>

(***************************************************************************)
(* What the API client presents.  client is the key pair the last generate *)
(* call returned, with live: whether the client was told since that the    *)
(* key was revoked.                                                        *)
(***************************************************************************)
NoClient == [has |-> FALSE, plain |-> <<>>, enc |-> <<>>, live |-> FALSE]

\* the encrypted form of the configured key, made offline with the
\* deployment's secret (scripts/generate_api_key.py)
ProvisionedKey == Encrypted(API_KEY_SECRET, DevKey, ZeroNonce).v

\* headers known to be accepted, used to reach the handlers
GoodHeaders == {Some(ProvisionedKey)}

\* a missing header, an unknown key, an accepted key
SmallHeaders == {None, Some(InvalidKey)} \cup GoodHeaders

HeaderSamples(c) ==
  {None, Some(<<>>), Some(DevKey), Some(InvalidKey), Some(ProvisionedKey)}
  \cup (IF c.has
        THEN {Some(c.plain),
              Some(Encrypted(OTHER_SECRET, c.plain, ZeroNonce).v)}
             \cup {Some(Tamper(k, c.enc)) : k \in TamperKinds}
        ELSE {})

\* what the encrypt endpoint answered last, if it was the last call
LastEncrypted(r) ==
  IF r.handler = "encrypt_api_key" /\ r.status = 200
  THEN {r.body.encrypted_key} ELSE {}

CipherSamples(c, r) ==
  {InvalidBase64, <<>>, DevKey} \cup LastEncrypted(r)
  \cup (IF c.has
        THEN {Encrypted(OTHER_SECRET, c.plain, ZeroNonce).v}
             \cup {Tamper(k, c.enc) : k \in TamperKinds}
        ELSE {})

PlainSamples == {DevKey, <<>>, KE}

KeySamples(c) ==
  {DevKey, ProvisionedKey, InvalidKey}
  \cup (IF c.has THEN {c.plain, c.enc} ELSE {})

RevokeSamples(c) == {InvalidKey} \cup (IF c.has THEN {c.plain} ELSE {})

(***************************************************************************)
(* Actions of the API-key layer: one per endpoint, each the middleware     *)
(* followed by the route handler                                           *)
(***************************************************************************)
\* the server takes the request and answers r
Respond(request, r) ==
  /\ valid_keys' = r.keys
  /\ resp' = [method |-> request.method, path |-> request.path,
              header |-> request.header, arg |-> request.arg,
              status |-> r.status, message |-> r.message,
              body |-> r.body, handler |-> r.handler]
  /\ client' =
       IF r.handler = "generate_api_key"
       THEN [has |-> TRUE, plain |-> r.body.key_plain,
             enc |-> r.body.key_encrypted, live |-> TRUE]
       ELSE IF /\ r.handler = "revoke_api_key"
               /\ client.has
               /\ request.arg.plain_key = client.plain
       THEN [client EXCEPT !.live = FALSE]
       ELSE client
  /\ UNCHANGED <<ENVIRONMENT, crud_vars, bot_vars, scraper_vars, telegram_vars, race_vars,
               service_vars>>

Serve(request, rnd) ==
  Respond(request, dispatch(valid_keys, ENVIRONMENT, request, rnd))

NoRnd == [token |-> <<>>, nonce |-> <<>>]
NoArg == [none |-> TRUE]

Health ==
  \E h \in SmallHeaders, p \in {P_health, P_healthz} :
    Serve([method |-> "GET", path |-> p, header |-> h, arg |-> NoArg], NoRnd)

GenerateKey ==
  \E h \in SmallHeaders, t \in Tokens, n \in Nonces :
    Serve([method |-> "POST", path |-> P_generate, header |-> h,
           arg |-> [name |-> "test-key"]],
          [token |-> t, nonce |-> n])

EncryptKey ==
  \E h \in SmallHeaders, p \in PlainSamples, n \in Nonces :
    /\ h \in GoodHeaders \/ p = DevKey
    /\ Serve([method |-> "POST", path |-> P_encrypt, header |-> h,
              arg |-> [plain_key |-> p]],
             [token |-> <<>>, nonce |-> n])

DecryptKey ==
  \E h \in SmallHeaders, x \in CipherSamples(client, resp) :
    /\ h \in GoodHeaders \/ x = InvalidBase64
    /\ Serve([method |-> "POST", path |-> P_decrypt, header |-> h,
              arg |-> [encrypted_key |-> x]], NoRnd)

ValidateKey ==
  \E h \in HeaderSamples(client), x \in KeySamples(client), e \in BOOLEAN :
    /\ h \in GoodHeaders \/ (x = DevKey /\ ~e)
    /\ Serve([method |-> "POST", path |-> P_validate, header |-> h,
              arg |-> [api_key |-> x, encrypted |-> e]], NoRnd)

RevokeKey ==
  \E h \in SmallHeaders, p \in RevokeSamples(client) :
    Serve([method |-> "DELETE", path |-> P_revoke, header |-> h,
           arg |-> [plain_key |-> p]], NoRnd)

\* the API-key layer as the process starts it, no request served yet
IdleAuth ==
  /\ valid_keys = get_valid_api_keys
  /\ client = NoClient
  /\ resp = [method |-> "", path |-> <<>>, header |-> None, arg |-> NoArg,
             status |-> 0, message |-> "", body |-> NoBody, handler |-> "none"]

InitAuth ==
  /\ ENVIRONMENT \in {"development", "production"}
  /\ IdleAuth
  /\ IdleCrud
  /\ IdleBots
  /\ IdleScrapers
  /\ IdleTelegram
  /\ IdleRace
  /\ IdleServices

NextAuth == Health \/ GenerateKey \/ EncryptKey \/ DecryptKey \/ ValidateKey \/ RevokeKey

(***************************************************************************)
(* Properties of the API-key layer.  resp' is the request a step served    *)
(* and the answer it was given; the unprimed variables are the state the   *)
(* request met.                                                            *)
(***************************************************************************)
MSG_MISSING == "Missing X-API-Key header"
MSG_INVALID == "Invalid API key"

\* the validator accepts header h, as the middleware asks it
Accepts(h) == h.some /\ validate(valid_keys, ENVIRONMENT, h.v, TRUE).is_valid

\* nothing the application keeps has changed
AppStateUnchanged == UNCHANGED <<ENVIRONMENT, valid_keys, crud_vars, bot_vars, scraper_vars, telegram_vars, race_vars,
               service_vars>>

\* C1 as stated: on a path that is not exempt the handler runs only if the
\* header is present and the validator accepts it; a missing header is
\* answered 401 "Missing", a header the validator does not accept 401
\* "Invalid", and in both cases no handler runs and no state changes.
C1_AsStated ==
  [][~_is_exempt(resp'.path) =>
       /\ resp'.handler # "none" => Accepts(resp'.header)
       /\ ~resp'.header.some =>
            resp'.status = 401 /\ resp'.message = MSG_MISSING
       /\ resp'.header.some /\ ~Accepts(resp'.header) =>
            resp'.status = 401 /\ resp'.message = MSG_INVALID
       /\ ~Accepts(resp'.header) =>
            resp'.handler = "none" /\ AppStateUnchanged]_vars

\* C1: on a path that is not exempt the handler runs only if the header is
\* present and the validator accepts it; a missing or empty header is
\* answered 401 "Missing", a non-empty header the validator does not accept
\* 401 "Invalid", and in both cases no handler runs and no state changes.
C1_Middleware ==
  [][~_is_exempt(resp'.path) =>
       /\ resp'.handler # "none" => Accepts(resp'.header)
       /\ ~resp'.header.some \/ resp'.header.v = <<>> =>
            resp'.status = 401 /\ resp'.message = MSG_MISSING
       /\ resp'.header.some /\ resp'.header.v # <<>> /\ ~Accepts(resp'.header) =>
            resp'.status = 401 /\ resp'.message = MSG_INVALID
       /\ ~Accepts(resp'.header) =>
            resp'.handler = "none" /\ AppStateUnchanged]_vars

\* an empty header, on a path that is not exempt, was answered 401 "Missing"
C1_Witness ==
  /\ resp.status = 401
  /\ ~_is_exempt(resp.path)
  /\ resp.header = Some(<<>>)
  /\ resp.message = MSG_MISSING

\* C2: decrypt(encrypt(p)) = p and encrypt(p) # p for every plaintext the
\* model draws and every nonce, for the pair each encrypt and generate call
\* returned, and end to end: the key_encrypted of the last generate call,
\* sent to the decrypt endpoint, is answered with that call's key_plain.
C2_RoundTrip ==
  /\ \A p \in Encryptable, n \in Nonces :
       /\ Encrypted(API_KEY_SECRET, p, n).some
       /\ Decrypted(API_KEY_SECRET, Encrypted(API_KEY_SECRET, p, n).v) = Some(p)
       /\ Encrypted(API_KEY_SECRET, p, n).v # p
  /\ resp.handler = "encrypt_api_key" /\ resp.status = 200 =>
       /\ Decrypted(API_KEY_SECRET, resp.body.encrypted_key) = Some(resp.arg.plain_key)
       /\ resp.body.encrypted_key # resp.arg.plain_key
  /\ resp.handler = "generate_api_key" =>
       /\ Decrypted(API_KEY_SECRET, resp.body.key_encrypted) = Some(resp.body.key_plain)
       /\ resp.body.key_encrypted # resp.body.key_plain
  /\ (/\ resp.handler = "decrypt_api_key"
      /\ client.has
      /\ resp.arg.encrypted_key = client.enc) =>
       resp.status = 200 /\ resp.body.decrypted_key = client.plain

\* the decrypt endpoint was sent what generate returned and answered its plain key
C2_Witness ==
  /\ resp.handler = "decrypt_api_key"
  /\ client.has
  /\ resp.arg.encrypted_key = client.enc
  /\ resp.status = 200
  /\ resp.body.decrypted_key = client.plain

\* C3 as stated: the middleware accepts a valid key presented in plain form
\* only when ENVIRONMENT is "development"; in any other environment an
\* accepted header decrypts to a key in the valid-key set.
C3_AsStated ==
  [][(~_is_exempt(resp'.path) /\ resp'.status # 401) =>
       \/ ENVIRONMENT = "development"
       \/ /\ resp'.header.some
          /\ Decrypted(API_KEY_SECRET, resp'.header.v).some
          /\ Decrypted(API_KEY_SECRET, resp'.header.v).v \in valid_keys]_vars

EncryptOutputs ==
  {EncryptTable[<<API_KEY_SECRET, p, n>>].v :
     p \in Encryptable, n \in Nonces \cup {ZeroNonce}}

\* the bytes the decoder of decrypt reads from x (None: it raises)
DecodedBytes(x) == Try(Utf8Encode(x), urlsafe_b64decode)

DecodedTable == [x \in CipherUniverse |-> DecodedBytes(x)]
Decoded(x) == Lookup(DecodedTable, x, DecodedBytes(x))

AuthenticBytes == {DecodedBytes(y) : y \in EncryptOutputs}

\* C5 as stated: the decrypt endpoint, given anything encrypt did not
\* return under the same secret, answers 400 and leaves the validator alone.
C5_AsStated ==
  [][resp'.handler = "decrypt_api_key" =>
       (resp'.arg.encrypted_key \notin EncryptOutputs =>
          resp'.status = 400 /\ valid_keys' = valid_keys)]_vars

\* C5: decrypt returns None, and never raises, for every input whose lenient
\* base64 decoding is not the nonce, ciphertext and tag encrypt made under
\* the same secret, and only for those; the decrypt endpoint then answers
\* 400, and it never changes the validator.
C5_DecryptRejects ==
  [][resp'.handler = "decrypt_api_key" =>
       /\ resp'.status \in {200, 400}
       /\ valid_keys' = valid_keys
       /\ resp'.status = 400 <=>
            ~Decrypted(API_KEY_SECRET, resp'.arg.encrypted_key).some
       /\ resp'.status = 400 <=>
            Decoded(resp'.arg.encrypted_key) \notin AuthenticBytes]_vars

\* a generated key with one character changed was answered 400
C5_Witness ==
  /\ resp.handler = "decrypt_api_key"
  /\ client.has
  /\ resp.arg.encrypted_key = Tamper("flip_last", client.enc)
  /\ resp.status = 400

(***************************************************************************)
(* The items and users tables (app/models/all_models.py).  A table is a    *)
(* function from primary key to row, a row a record of its columns.  A     *)
(* column that the ORM can assign holds an Optional: None is SQL NULL.     *)
(* A mapped instance is [row, attrs]: the column values and the plain      *)
(* Python attributes of the object, both found in its __dict__.            *)
(***************************************************************************)
EmptyTable == <<>>
NoAttrs == <<>>

\* default=lambda: str(uuid.uuid4()): the n-th key drawn by the process
uuid4(n) == n + 1

\* Item before its INSERT completes: id and created_at are filled in by the
\* default and the server default, metadata_fields and updated_at are NULL
Item(id, t) ==
  [id |-> id, name |-> None, description |-> None, price |-> None,
   quantity |-> Some(0), is_active |-> Some(TRUE), metadata_fields |-> None,
   created_at |-> t, updated_at |-> None]

User(id, t) ==
  [id |-> id, email |-> None, username |-> None, full_name |-> None,
   hashed_password |-> None, is_active |-> Some(TRUE),
   is_superuser |-> Some(FALSE), created_at |-> t, updated_at |-> None]

\* Mapped[T] without Optional is NOT NULL
ItemNotNull == {"name", "price", "quantity", "is_active"}
UserNotNull == {"email", "username", "is_active", "is_superuser"}
ItemUnique == {}
UserUnique == {"email", "username"}

\* an instance a query loaded: __dict__ holds the columns only
Loaded(row) == [row |-> row, attrs |-> NoAttrs]

\* for key, value in data.items(): setattr(obj, key, value), which is also
\* what the declarative constructor does with its keyword arguments.  A key
\* that names a mapped column sets the column; any other key ("metadata",
\* which on the class is the MetaData of Base) lands in the instance
\* __dict__ and is not part of the row
setattr_all(obj, data) ==
  [row |-> [c \in DOMAIN obj.row |->
              IF c \in DOMAIN data THEN data[c] ELSE obj.row[c]],
   attrs |-> [k \in (DOMAIN obj.attrs \cup DOMAIN data) \ DOMAIN obj.row |->
                IF k \in DOMAIN data THEN data[k] ELSE obj.attrs[k]]]

\* user.model_dump(exclude={"password"})
model_dump_exclude(data, excluded) == [k \in DOMAIN data \ excluded |-> data[k]]

\* the constraints the database checks on INSERT and UPDATE
IntegrityOk(table, id, row, notnull, unique) ==
  /\ \A c \in notnull : row[c].some
  /\ \A c \in unique : \A j \in DOMAIN table \ {id} : table[j][c] # row[c]

Put(table, id, row) ==
  [i \in DOMAIN table \cup {id} |-> IF i = id THEN row ELSE table[i]]
Drop(table, ids) == [i \in DOMAIN table \ ids |-> table[i]]

\* ItemResponse.model_validate(db_item.__dict__): the fields of the schema
\* read from the dict by name, the others ignored; "metadata" is found only
\* if the instance carries that attribute, else it takes its default
ItemResponse_model_validate(obj) ==
  [id |-> obj.row.id, name |-> obj.row.name,
   description |-> obj.row.description, price |-> obj.row.price,
   quantity |-> obj.row.quantity, is_active |-> obj.row.is_active,
   metadata |-> IF "metadata" \in DOMAIN obj.attrs
                THEN obj.attrs.metadata ELSE None,
   created_at |-> obj.row.created_at, updated_at |-> obj.row.updated_at]

UserResponse_model_validate(obj) ==
  [id |-> obj.row.id, email |-> obj.row.email, username |-> obj.row.username,
   full_name |-> obj.row.full_name, is_active |-> obj.row.is_active,
   created_at |-> obj.row.created_at, updated_at |-> obj.row.updated_at]

\* response_model.model_validate(obj.__dict__)
model_validate(schema, obj) ==
  IF schema = "ItemResponse" THEN ItemResponse_model_validate(obj)
  ELSE UserResponse_model_validate(obj)

(***************************************************************************)
(* Answers of the CRUD handlers: the status, the body, the table after     *)
(***************************************************************************)
HTTP_404_NOT_FOUND(table) ==
  [status |-> 404, body |-> [error |-> "not_found"], table |-> table]

\* an IntegrityError raised by commit is not caught: the transaction is
\* rolled back and the request answered 500
IntegrityError(table) ==
  [status |-> 500, body |-> [error |-> "Internal Server Error"], table |-> table]

Stored(table, obj, status, schema) ==
  [status |-> status, body |-> model_validate(schema, obj),
   table |-> Put(table, obj.row.id, obj.row)]

\* db.add(obj); commit(); refresh(obj)
commit_insert(table, obj, notnull, unique, schema) ==
  IF IntegrityOk(table, obj.row.id, obj.row, notnull, unique)
  THEN Stored(table, obj, 201, schema)
  ELSE IntegrityError(table)

\* commit(); refresh(obj) after the setattr loop: an UPDATE is emitted only
\* if a column value differs from the loaded one, and with it
\* onupdate=func.now() stamps updated_at
commit_update(table, obj, t, notnull, unique, schema) ==
  IF obj.row = table[obj.row.id]
  THEN [status |-> 200, body |-> model_validate(schema, obj), table |-> table]
  ELSE IF IntegrityOk(table, obj.row.id, obj.row, notnull, unique)
  THEN Stored(table, [obj EXCEPT !.row.updated_at = Some(t)], 200, schema)
  ELSE IntegrityError(table)

(***************************************************************************)
(* Listing: filters, ORDER BY created_at DESC, OFFSET and LIMIT            *)
(***************************************************************************)
lower(c) == IF c >= 65 /\ c <= 90 THEN c + 32 ELSE c

\* SQL LIKE: % is any run of characters, _ any one character
RECURSIVE like(_, _)
like(s, pattern) ==
  IF pattern = <<>> THEN s = <<>>
  ELSE IF Head(pattern) = 37
  THEN like(s, Tail(pattern)) \/ (s # <<>> /\ like(Tail(s), pattern))
  ELSE /\ s # <<>>
       /\ Head(pattern) = 95 \/ Head(pattern) = Head(s)
       /\ like(Tail(s), Tail(pattern))

\* column.ilike(f"%{search}%")
ilike(s, search) ==
  like([i \in 1..Len(s) |-> lower(s[i])],
       <<37>> \o [i \in 1..Len(search) |-> lower(search[i])] \o <<37>>)

\* the WHERE clause built from the two optional filters; an empty search
\* string is falsy and adds no filter
Matching(table, column, q) ==
  {i \in DOMAIN table :
     /\ q.is_active.some => table[i].is_active = q.is_active
     /\ (q.search.some /\ q.search.v # <<>>) => ilike(table[i][column].v, q.search.v)}

Perms(S) ==
  {f \in [1..Cardinality(S) -> S] :
     \A i, j \in 1..Cardinality(S) : i # j => f[i] # f[j]}

\* the orders in which ORDER BY created_at DESC may deliver the rows: rows
\* with equal created_at come in an order that SQL leaves to the database,
\* which chooses it for each query
Orderings(table, ids) ==
  {o \in Perms(ids) :
     \A i, j \in 1..Len(o) :
       i < j => table[o[i]].created_at >= table[o[j]].created_at}

\* query.offset((page - 1) * page_size).limit(page_size)
offset_limit(order, page, page_size) ==
  SeqTo(SeqFrom(order, (page - 1) * page_size + 1), page_size)

PaginatedResponse_create(rows, total, page, page_size) ==
  [items |-> rows, total |-> total, page |-> page, page_size |-> page_size,
   pages |-> (total + page_size - 1) \div page_size]

\* order: the order the database delivers the matching rows in
list_rows(table, q, order, schema) ==
  [status |-> 200,
   body |-> PaginatedResponse_create(
              [k \in 1..Len(offset_limit(order, q.page, q.page_size)) |->
                 model_validate(schema,
                   Loaded(table[offset_limit(order, q.page, q.page_size)[k]]))],
              Len(order), q.page, q.page_size),
   table |-> table]

list_items(tbl, q, order) == list_rows(tbl, q, order, "ItemResponse")
list_users(tbl, q, order) == list_rows(tbl, q, order, "UserResponse")

(***************************************************************************)
(* The handlers of app/api/v1/items.py and users.py                        *)
(***************************************************************************)
get_item(tbl, item_id) ==
  IF item_id \notin DOMAIN tbl THEN HTTP_404_NOT_FOUND(tbl)
  ELSE [status |-> 200, body |-> ItemResponse_model_validate(Loaded(tbl[item_id])),
        table |-> tbl]

create_item(tbl, item, id, t) ==
  commit_insert(tbl, setattr_all(Loaded(Item(id, t)), item),
                ItemNotNull, ItemUnique, "ItemResponse")

update_item(tbl, item_id, item_update, t) ==
  IF item_id \notin DOMAIN tbl THEN HTTP_404_NOT_FOUND(tbl)
  ELSE commit_update(tbl, setattr_all(Loaded(tbl[item_id]), item_update), t,
                     ItemNotNull, ItemUnique, "ItemResponse")

patch_item(tbl, item_id, item, t) == update_item(tbl, item_id, item, t)

\* a delete that answers 200 and leaves the row where it is
delete_item_kept(tbl, item_id) ==
  IF item_id \notin DOMAIN tbl THEN HTTP_404_NOT_FOUND(tbl)
  ELSE [status |-> 200, body |-> [message |-> "deleted"], table |-> tbl]

delete_item(tbl, item_id) ==
  IF item_id \notin DOMAIN tbl THEN HTTP_404_NOT_FOUND(tbl)
  ELSE [status |-> 200, body |-> [message |-> "deleted"],
        table |-> Drop(tbl, {item_id})]

delete_all_items(tbl) ==
  [status |-> 200, body |-> [message |-> "deleted", rowcount |-> Cardinality(DOMAIN tbl)],
   table |-> Drop(tbl, DOMAIN tbl)]

get_user(tbl, user_id) ==
  IF user_id \notin DOMAIN tbl THEN HTTP_404_NOT_FOUND(tbl)
  ELSE [status |-> 200, body |-> UserResponse_model_validate(Loaded(tbl[user_id])),
        table |-> tbl]

\* a create_user that keeps the submitted password in the row
create_user_keeping_password(tbl, user, id, t) ==
  commit_insert(tbl,
                setattr_all(Loaded([User(id, t) EXCEPT !.hashed_password = user.password]),
                            model_dump_exclude(user, {"password"})),
                UserNotNull, UserUnique, "UserResponse")

create_user(tbl, user, id, t) ==
  commit_insert(tbl,
                setattr_all(Loaded(User(id, t)), model_dump_exclude(user, {"password"})),
                UserNotNull, UserUnique, "UserResponse")

update_user(tbl, user_id, user_update, t) ==
  IF user_id \notin DOMAIN tbl THEN HTTP_404_NOT_FOUND(tbl)
  ELSE commit_update(tbl, setattr_all(Loaded(tbl[user_id]), user_update), t,
                     UserNotNull, UserUnique, "UserResponse")

patch_user(tbl, user_id, user, t) == update_user(tbl, user_id, user, t)

delete_user(tbl, user_id) ==
  IF user_id \notin DOMAIN tbl THEN HTTP_404_NOT_FOUND(tbl)
  ELSE [status |-> 200, body |-> [message |-> "deleted"],
        table |-> Drop(tbl, {user_id})]

(***************************************************************************)
(* CRUD requests.  Each carries an accepted X-API-Key, so the middleware   *)
(* hands it to the route handler.  Bodies are what model_dump() gives the  *)
(* handler: every field for a create, the fields that were sent for an     *)
(* update (exclude_unset=True).                                            *)
(***************************************************************************)
MaxIds == 2      \* primary keys drawn over a run
Clock == {0, 1}  \* the readings of the database clock
Pages == {1, 2}
PageSizes == {1, 2}

Ids == 1..MaxIds
\* the time of a create: the clock's last reading or the next one
Ticks(t) == {t, t + 1} \cap Clock

ItemCreateSamples ==
  {[name |-> Some(<<97, 98>>), description |-> None, price |-> Some(1),
    quantity |-> Some(0), is_active |-> Some(TRUE),
    metadata |-> Some([k |-> "v"])],
   [name |-> Some(<<66>>), description |-> Some(<<100>>), price |-> Some(2),
    quantity |-> Some(3), is_active |-> Some(FALSE), metadata |-> None]}

ItemUpdateSamples ==
  {[name |-> Some(<<66>>)],
   [metadata |-> Some([k |-> "w"])],
   [name |-> None]}

ItemPatchSamples == {<<>>, [metadata |-> None]}

Passwords == {<<104, 117, 110, 116, 101, 114, 50, 45, 104, 117, 110, 116, 101, 114, 50>>, <<99, 111, 114, 114, 101, 99, 116, 32, 104, 111, 114, 115, 101>>}

UserCreateSamples ==
  {[email |-> Some(<<97, 64, 120>>), username |-> Some(<<97, 110, 110>>), full_name |-> None,
    is_active |-> Some(TRUE), password |-> Some(<<104, 117, 110, 116, 101, 114, 50, 45, 104, 117, 110, 116, 101, 114, 50>>)],
   [email |-> Some(<<98, 64, 120>>), username |-> Some(<<66, 111, 98>>),
    full_name |-> Some(<<66, 111>>), is_active |-> Some(FALSE),
    password |-> Some(<<99, 111, 114, 114, 101, 99, 116, 32, 104, 111, 114, 115, 101>>)]}

UserUpdateSamples ==
  {[email |-> Some(<<98, 64, 120>>)],
   [full_name |-> None],
   [is_active |-> None]}

UserPatchSamples == {<<>>}

\* every page of an unfiltered listing, and the first page under the filters
Queries ==
  {[page |-> p, page_size |-> s, is_active |-> None, search |-> None] :
     p \in Pages, s \in PageSizes}
  \cup {[page |-> 1, page_size |-> 2, is_active |-> f[1], search |-> f[2]] :
          f \in {<<Some(TRUE), Some(<<>>)>>, <<None, Some(<<98>>)>>}}

(***************************************************************************)
(* Actions of the CRUD endpoints                                           *)
(***************************************************************************)
\* the request is answered r; drawn: primary keys drawn, t: the time now
Answered(op, id, data, r, drawn, t) ==
  /\ reply' = [op |-> op, id |-> id, data |-> data,
               status |-> r.status, body |-> r.body]
  /\ uuid_count' = uuid_count + drawn
  /\ now' = t
  /\ UNCHANGED <<ENVIRONMENT, valid_keys, client, resp, bot_vars, scraper_vars, telegram_vars, race_vars,
               service_vars>>

ItemsAnswered(op, id, data, r, drawn, t) ==
  /\ items' = r.table
  /\ gone' = gone \cup {<<"items", i>> : i \in DOMAIN items \ DOMAIN r.table}
  /\ users' = users
  /\ Answered(op, id, data, r, drawn, t)

UsersAnswered(op, id, data, r, drawn, t) ==
  /\ users' = r.table
  /\ gone' = gone \cup {<<"users", i>> : i \in DOMAIN users \ DOMAIN r.table}
  /\ items' = items
  /\ Answered(op, id, data, r, drawn, t)

ListItems ==
  \E q \in Queries :
    \E order \in Orderings(items, Matching(items, "name", q)) :
      ItemsAnswered("list_items", 0, q, list_items(items, q, order), 0, now)

GetItem ==
  \E id \in Ids : ItemsAnswered("get_item", id, <<>>, get_item(items, id), 0, now)

CreateItem ==
  /\ uuid_count < MaxIds
  /\ \E item \in ItemCreateSamples, t \in Ticks(now) :
       ItemsAnswered("create_item", 0, item,
                     create_item(items, item, uuid4(uuid_count), t), 1, t)

UpdateItem ==
  \E id \in Ids, item \in ItemUpdateSamples :
    ItemsAnswered("update_item", id, item, update_item(items, id, item, now), 0, now)

PatchItem ==
  \E id \in Ids, item \in ItemPatchSamples :
    ItemsAnswered("patch_item", id, item, patch_item(items, id, item, now), 0, now)

DeleteItem ==
  \E id \in Ids :
    ItemsAnswered("delete_item", id, <<>>, delete_item(items, id), 0, now)

DeleteAllItems ==
  ItemsAnswered("delete_all_items", 0, <<>>, delete_all_items(items), 0, now)

ListUsers ==
  \E q \in Queries :
    \E order \in Orderings(users, Matching(users, "username", q)) :
      UsersAnswered("list_users", 0, q, list_users(users, q, order), 0, now)

GetUser ==
  \E id \in Ids : UsersAnswered("get_user", id, <<>>, get_user(users, id), 0, now)

CreateUser ==
  /\ uuid_count < MaxIds
  /\ \E user \in UserCreateSamples, t \in Ticks(now) :
       UsersAnswered("create_user", 0, user,
                     create_user(users, user, uuid4(uuid_count), t), 1, t)

UpdateUser ==
  \E id \in Ids, user \in UserUpdateSamples :
    UsersAnswered("update_user", id, user, update_user(users, id, user, now), 0, now)

PatchUser ==
  \E id \in Ids, user \in UserPatchSamples :
    UsersAnswered("patch_user", id, user, patch_user(users, id, user, now), 0, now)

DeleteUser ==
  \E id \in Ids :
    UsersAnswered("delete_user", id, <<>>, delete_user(users, id), 0, now)

InitCrud ==
  /\ ENVIRONMENT = "development"
  /\ IdleAuth
  /\ IdleCrud
  /\ IdleBots
  /\ IdleScrapers
  /\ IdleTelegram
  /\ IdleRace
  /\ IdleServices

NextCrud ==
  \/ ListItems \/ GetItem \/ CreateItem \/ UpdateItem \/ PatchItem
  \/ DeleteItem \/ DeleteAllItems
  \/ ListUsers \/ GetUser \/ CreateUser \/ UpdateUser \/ PatchUser \/ DeleteUser

(***************************************************************************)
(* Claims about the CRUD endpoints                                         *)
(***************************************************************************)
ItemOps == {"list_items", "get_item", "create_item", "update_item",
            "patch_item", "delete_item", "delete_all_items"}
ByIdOps == {"get_item", "update_item", "patch_item", "delete_item",
            "get_user", "update_user", "patch_user", "delete_user"}
GetOps == {"get_item", "get_user"}
CreateOps == {"create_item", "create_user"}
UpdateOps == {"update_item", "patch_item", "update_user", "patch_user"}
DeleteOps == {"delete_item", "delete_user"}

\* the ids stored in the table the operation works on, before the request
StoredIds(op) == IF op \in ItemOps THEN DOMAIN items ELSE DOMAIN users
AllStoredIds == DOMAIN items \cup DOMAIN users
TableOf(op) == IF op \in ItemOps THEN "items" ELSE "users"
GoneIds == {g[2] : g \in gone}

\* C6: get, update and delete of an id that is not stored answer 404 and
\* change no record; an id returned by create is stored and is retrievable
\* while it is; a delete answered 200 removes the id, and every later get,
\* update or delete of a deleted id answers 404 (ids are never issued twice)
C6_NotFound ==
  [][/\ (reply'.op \in ByIdOps /\ reply'.id \notin StoredIds(reply'.op))
          => (reply'.status = 404 /\ items' = items /\ users' = users)
     /\ (reply'.op \in GetOps /\ reply'.id \in StoredIds(reply'.op))
          => (reply'.status = 200 /\ reply'.body.id = reply'.id)
     /\ (reply'.op \in CreateOps /\ reply'.status = 201)
          => /\ reply'.body.id \notin AllStoredIds \cup GoneIds
             /\ reply'.body.id \in AllStoredIds'
     /\ (reply'.op \in DeleteOps /\ reply'.status = 200)
          => /\ <<TableOf(reply'.op), reply'.id>> \in gone'
             /\ reply'.id \notin AllStoredIds'
     /\ (reply'.op \in ByIdOps /\ reply'.id \in GoneIds) => reply'.status = 404
     /\ GoneIds' \cap AllStoredIds' = {}
    ]_vars

\* a get of an item that was created and then deleted, answered 404
C6_Witness ==
  reply.op = "get_item" /\ <<"items", reply.id>> \in gone /\ reply.status = 404

IsList(r) == r.op \in {"list_items", "list_users"}
ListedIds(r) == {r.body.items[k].id : k \in 1..Len(r.body.items)}
MatchingSet(r) ==
  IF r.op = "list_items" THEN Matching(items, "name", r.data)
  ELSE Matching(users, "username", r.data)
SetMinOf(a, b) == IF a < b THEN a ELSE b

\* the page a listing answered: total, pages and the number and order of rows
PageContents(r) ==
  /\ r.status = 200
  /\ r.body.total = Cardinality(MatchingSet(r))
  /\ r.body.pages * r.data.page_size >= r.body.total
  /\ (r.body.pages - 1) * r.data.page_size < r.body.total \/ r.body.total = 0
  /\ r.body.total = 0 => r.body.pages = 0
  /\ Len(r.body.items) <= r.data.page_size
  /\ (r.data.page - 1) * r.data.page_size + Len(r.body.items)
       = SetMinOf(r.data.page * r.data.page_size,
                  IF (r.data.page - 1) * r.data.page_size > r.body.total
                  THEN (r.data.page - 1) * r.data.page_size ELSE r.body.total)
  /\ ListedIds(r) \subseteq MatchingSet(r)
  /\ Cardinality(ListedIds(r)) = Len(r.body.items)
  /\ \A i, j \in 1..Len(r.body.items) :
       i < j => r.body.items[i].created_at >= r.body.items[j].created_at

\* two listings one after the other and nothing between: the same query
\* but for the page
SameListing(r1, r2) ==
  /\ IsList(r1) /\ IsList(r2) /\ r1.op = r2.op
  /\ r1.data.page_size = r2.data.page_size
  /\ r1.data.is_active = r2.data.is_active
  /\ r1.data.search = r2.data.search
  /\ r1.data.page # r2.data.page

\* C7: a listing returns total = the number of matching records, pages =
\* ceil(total / page_size) and the records at positions (p-1)*s+1 ..
\* min(p*s, total) in created_at descending order; with no write between,
\* two different pages of one listing are disjoint, and the pages of a
\* two-page listing hold the whole matching set
C7_AsStated ==
  [][/\ IsList(reply') => PageContents(reply)'
     /\ SameListing(reply, reply')
          => /\ ListedIds(reply) \cap ListedIds(reply') = {}
             /\ reply'.body.pages = 2
                  => ListedIds(reply) \cup ListedIds(reply') = MatchingSet(reply)
    ]_vars

\* the field of the update schema and the column that stores it
ColumnOf(f) == IF f = "metadata" THEN "metadata_fields" ELSE f
ItemFields == {"name", "description", "price", "quantity", "is_active", "metadata"}
UserFields == {"email", "username", "full_name", "is_active"}

\* the update stored exactly data's fields in row id, with everything else
\* as before; updated_at, the modification stamp, is free to move
UpdateSets(old, new, id, data, fields) ==
  /\ DOMAIN new = DOMAIN old
  /\ \A j \in DOMAIN old \ {id} : new[j] = old[j]
  /\ \A f \in fields :
       new[id][ColumnOf(f)] =
         IF f \in DOMAIN data THEN data[f] ELSE old[id][ColumnOf(f)]
  /\ \A c \in DOMAIN old[id] \ ({ColumnOf(f) : f \in fields} \cup {"updated_at"}) :
       new[id][c] = old[id][c]

\* C8: an update (PUT or PATCH) answered 200 sets the fields present in the
\* body to the given values and leaves the other fields of the record, its
\* id and the other records unchanged
C8_AsStated ==
  [][/\ (reply'.op \in {"update_item", "patch_item"} /\ reply'.status = 200)
          => /\ UpdateSets(items, items', reply'.id, reply'.data, ItemFields)
             /\ users' = users
     /\ (reply'.op \in {"update_user", "patch_user"} /\ reply'.status = 200)
          => /\ UpdateSets(users, users', reply'.id, reply'.data, UserFields)
             /\ items' = items
    ]_vars

PasswordValues == {Some(p) : p \in Passwords}
UserStrings == {"email", "username", "full_name"}

\* a user response: no password field, no field holding a password
WithoutPassword(u) ==
  /\ DOMAIN u \cap {"password", "hashed_password"} = {}
  /\ \A f \in UserStrings : u[f] \notin PasswordValues

\* C9: the password given to create_user is not in the stored user record
\* and not in the response to create_user, get_user, update_user,
\* patch_user or list_users
C9_PasswordNotKept ==
  /\ \A i \in DOMAIN users :
       \A c \in UserStrings \cup {"hashed_password"} :
         users[i][c] \notin PasswordValues
  /\ (reply.op \in {"create_user", "get_user", "update_user", "patch_user"}
        /\ reply.status \in {200, 201})
       => WithoutPassword(reply.body)
  /\ reply.op = "list_users"
       => \A k \in 1..Len(reply.body.items) : WithoutPassword(reply.body.items[k])

\* create_user answered 201 to a request that carried a password
C9_Witness ==
  /\ reply.op = "create_user" /\ reply.status = 201
  /\ reply.data.password \in PasswordValues
  /\ reply.body.id \in DOMAIN users

(***************************************************************************)
(* The bot registry (app/services/bot_manager.py): BotManager._bots and    *)
(* the JSON file it is saved to.  A BotConfig is a record of its fields    *)
(* (created_at and max_requests_per_minute, which no operation here sets   *)
(* or saves, are left out); the file is the list json.dump wrote, one dict *)
(* for each bot, kept by bot_id.                                           *)
(***************************************************************************)
DefaultCommands == <<"scrape", "batch", "status", "help">>

\* the dataclass with its defaults, the keyword arguments laid over them
BotConfig(bot_id, bot_token, bot_name, channel_id, allowed_users, is_active, kwargs) ==
  [f \in {"bot_id", "bot_token", "bot_name", "channel_id", "allowed_users",
          "allowed_commands", "is_active", "webhook_url", "webhook_secret",
          "default_wait_time", "default_timeout", "take_screenshot",
          "send_to_channel"} |->
     IF f \in DOMAIN kwargs THEN kwargs[f]
     ELSE [bot_id |-> bot_id, bot_token |-> bot_token, bot_name |-> bot_name,
           channel_id |-> channel_id, allowed_users |-> allowed_users,
           allowed_commands |-> DefaultCommands, is_active |-> is_active,
           webhook_url |-> None, webhook_secret |-> None,
           default_wait_time |-> 5, default_timeout |-> 30,
           take_screenshot |-> TRUE, send_to_channel |-> TRUE][f]]

\* the keys of the dict written for a bot
SavedKeys ==
  {"bot_id", "bot_token", "bot_name", "channel_id", "allowed_users",
   "allowed_commands", "is_active", "default_wait_time", "default_timeout",
   "take_screenshot", "send_to_channel", "webhook_url"}

\* json.dump(bots_data, f): the content of the file after a save
_save_to_file(registry) ==
  Some([b \in DOMAIN registry |-> [k \in SavedKeys |-> registry[b][k]]])

\* self._bots[bot_id] = config
register_bot(registry, bot_id, bot_token, bot_name, channel_id, allowed_users, is_active, kwargs) ==
  Put(registry, bot_id,
      BotConfig(bot_id, bot_token, bot_name, channel_id, allowed_users,
                is_active, kwargs))

\* one dict of the file registered as _load_from_file does: nine of its keys
\* are read, the others are not
register_loaded(registry, bot_data) ==
  register_bot(registry, bot_data.bot_id, bot_data.bot_token, bot_data.bot_name,
               bot_data.channel_id, bot_data.allowed_users, bot_data.is_active,
               [default_wait_time |-> bot_data.default_wait_time,
                default_timeout |-> bot_data.default_timeout,
                take_screenshot |-> bot_data.take_screenshot])

\* the bots of the file that are not registered yet are registered
_load_from_file(registry, file) ==
  IF ~file.some THEN registry
  ELSE [b \in DOMAIN registry \cup DOMAIN file.v |->
          IF b \in DOMAIN registry THEN registry[b]
          ELSE register_loaded(EmptyTable, file.v[b])[b]]

\* a new process: no bot configured in the environment, then the file
initialize(file) == _load_from_file(EmptyTable, file)

\* an unregister_bot that leaves the bot in place
unregister_bot_kept(registry, bot_id) == registry

\* del self._bots[bot_id]
unregister_bot(registry, bot_id) == Drop(registry, {bot_id})

\* setattr(config, key, value) for the keys the config has
update_bot(registry, bot_id, kwargs) ==
  IF bot_id \notin DOMAIN registry THEN registry
  ELSE Put(registry, bot_id,
           [f \in DOMAIN registry[bot_id] |->
              IF f \in DOMAIN kwargs THEN kwargs[f] ELSE registry[bot_id][f]])

\* ok: the bots for which Telegram answered setWebhook with ok
setup_webhooks(registry, base_url, secret, ok) ==
  [b \in DOMAIN registry |->
     IF registry[b].is_active /\ b \in ok
     THEN [registry[b] EXCEPT !.webhook_url = Some(<<base_url, "/api/v1/webhook/", b>>),
                              !.webhook_secret = secret]
     ELSE registry[b]]

remove_all_webhooks(registry, ok) ==
  [b \in DOMAIN registry |->
     IF b \in ok THEN [registry[b] EXCEPT !.webhook_url = None] ELSE registry[b]]

\* setup_bot_webhook: bot.webhook_url = webhook_url; bot.webhook_secret = secret
\* when Telegram answered setWebhook with ok
setup_bot_webhook(registry, bot_id, base_url, secret, ok) ==
  IF bot_id \in DOMAIN registry /\ ok
  THEN Put(registry, bot_id,
           [registry[bot_id] EXCEPT !.webhook_url = Some(<<base_url, "/api/v1/webhook/", bot_id>>),
                                    !.webhook_secret = Some(secret)])
  ELSE registry

\* remove_bot_webhook: bot.webhook_url = None when Telegram answered
\* deleteWebhook with ok
remove_bot_webhook(registry, bot_id, ok) ==
  IF bot_id \in DOMAIN registry /\ ok
  THEN Put(registry, bot_id, [registry[bot_id] EXCEPT !.webhook_url = None])
  ELSE registry

(***************************************************************************)
(* Actions of the bot registry                                             *)
(***************************************************************************)
BotIds == {"bot1", "bot2"}

RegisterSamples ==
  {[bot_token |-> "111:AAA", bot_name |-> "One", channel_id |-> "@one",
    allowed_users |-> <<>>, is_active |-> TRUE,
    kwargs |-> [default_wait_time |-> 5, default_timeout |-> 30,
                take_screenshot |-> TRUE, send_to_channel |-> TRUE]],
   [bot_token |-> "222:BBB", bot_name |-> "Two", channel_id |-> "-1002",
    allowed_users |-> <<7>>, is_active |-> FALSE,
    kwargs |-> [default_wait_time |-> 0, default_timeout |-> 60,
                take_screenshot |-> FALSE, send_to_channel |-> FALSE]]}

BotUpdateSamples ==
  {[allowed_commands |-> <<"scrape">>],
   [is_active |-> TRUE, bot_name |-> "Other"],
   [send_to_channel |-> FALSE]}

\* the registry changed to r and was saved
Saved(r) ==
  /\ bots' = r
  /\ config_file' = _save_to_file(r)
  /\ UNCHANGED <<ENVIRONMENT, valid_keys, client, resp, crud_vars, scraper_vars, telegram_vars, race_vars,
               service_vars>>

RegisterBot ==
  \E b \in BotIds, c \in RegisterSamples :
    Saved(register_bot(bots, b, c.bot_token, c.bot_name, c.channel_id,
                       c.allowed_users, c.is_active, c.kwargs))

UpdateBot ==
  \E b \in BotIds, kwargs \in BotUpdateSamples :
    /\ b \in DOMAIN bots
    /\ Saved(update_bot(bots, b, kwargs))

UnregisterBot ==
  \E b \in BotIds :
    /\ b \in DOMAIN bots
    /\ Saved(unregister_bot(bots, b))

SetupWebhooks ==
  \E ok \in SUBSET BotIds, secret \in {None, Some("s3")} :
    Saved(setup_webhooks(bots, "https://host", secret, ok))

RemoveAllWebhooks ==
  \E ok \in SUBSET BotIds : Saved(remove_all_webhooks(bots, ok))

\* the registry changed to r and nothing was written
NotSaved(r) ==
  /\ bots' = r
  /\ UNCHANGED <<ENVIRONMENT, valid_keys, client, resp, crud_vars, config_file,
               scraper_vars, telegram_vars, race_vars, service_vars>>

\* POST /webhooks/setup/{bot_id}; secret is request.secret or a generated one
SetupBotWebhook ==
  \E b \in BotIds, ok \in BOOLEAN, secret \in {"s3", "token_hex"} :
    /\ b \in DOMAIN bots
    /\ NotSaved(setup_bot_webhook(bots, b, "https://host", secret, ok))

\* DELETE /webhooks/{bot_id}
RemoveBotWebhook ==
  \E b \in BotIds, ok \in BOOLEAN :
    /\ b \in DOMAIN bots
    /\ NotSaved(remove_bot_webhook(bots, b, ok))

\* the process is restarted: a new BotManager is initialized from the file
Restart ==
  /\ bots' = initialize(config_file)
  /\ UNCHANGED <<ENVIRONMENT, valid_keys, client, resp, crud_vars, config_file,
               scraper_vars, telegram_vars, race_vars,
               service_vars>>

InitBots ==
  /\ ENVIRONMENT = "development"
  /\ IdleAuth
  /\ IdleCrud
  /\ IdleBots
  /\ IdleScrapers
  /\ IdleTelegram
  /\ IdleRace
  /\ IdleServices

NextBots ==
  \/ RegisterBot \/ UpdateBot \/ UnregisterBot
  \/ SetupWebhooks \/ RemoveAllWebhooks
  \/ SetupBotWebhook \/ RemoveBotWebhook \/ Restart

(***************************************************************************)
(* Claims about the bot registry                                           *)
(***************************************************************************)
\* C10: saving the registry and loading the file into an empty BotManager
\* gives the registry back: the same bot_ids, each bot with the same fields
C10_AsStated == _load_from_file(EmptyTable, _save_to_file(bots)) = bots

(***************************************************************************)
(* The scraper layer (app/services/scrapers).  An operation runs in a      *)
(* world w: the instance (self), the browser sessions that are open, the   *)
(* number started so far, and what the operation sent to the site and      *)
(* which sessions it started.  What the site, the browser and the network  *)
(* do is the operation's env: one outcome for each stretch of code that    *)
(* handles a failure the same way.  A result is the world after, the       *)
(* exception that left the operation (None: it returned) and the value.    *)
(***************************************************************************)
Ret(w, v) == [w |-> w, exc |-> None, value |-> v]
Raise(w, e) == [w |-> w, exc |-> Some(e), value |-> <<>>]

\* {"status": ..., "message": ...}
Dict(status, message) == [status |-> status, message |-> message]
\* except Exception as e: return {"status": "error", "message": str(e)}
ErrorDict(e) == Dict("error", e)
\* the (balance, message) pair of get_agent_balance
Pair(balance, message) == [balance |-> balance, message |-> message]

Sent(w, what) == [w EXCEPT !.sent = Append(@, what)]

\* Settings declares credentials for two games only, both None unless the
\* environment sets them; reading any other name raises AttributeError
SettingsFields == {"PANDAMASTER", "FIREKIRIN"}
SettingsName(game) ==
  IF game = "pandamaster" THEN "PANDAMASTER" ELSE "OTHER"

\* the scraper classes under app/services/scrapers
ConsoleGames == {"pandamaster", "orionstars"}
TokenGames ==
  {"juwa777", "gamevault999", "cashfrenzy777", "lasvegassweeps", "juwa2", "vegasx"}
SignedGames == {"vblink777", "egame99"}
Games == ConsoleGames \cup TokenGames \cup SignedGames \cup {"moolah"}
\* the classes whose __init__ sets self.driver
HasDriver == ConsoleGames \cup {"juwa777", "moolah"}

\* __init__(username, password): username or settings.<GAME>_USER.  given:
\* the caller passed both; configured: the environment sets the declared
\* ones.  creds: whether self.username and self.password are truthy
__init__(game, given, configured) ==
  IF given THEN Ret([game |-> game, driver |-> None, token |-> FALSE, creds |-> TRUE], None)
  ELSE IF SettingsName(game) \notin SettingsFields THEN Raise(NoScraper, "AttributeError")
  ELSE Ret([game |-> game, driver |-> None, token |-> FALSE, creds |-> configured], None)

(***************************************************************************)
(* PandaMasterScraper and OrionStarsScraper: the agent console driven      *)
(* through a browser that stays open until close()                         *)
(***************************************************************************)
MAX_RETRIES == 2

\* chrome: "ok", "raise" (uc.Chrome raises), "late" (set_window_size raises
\* once self.driver is assigned)
initialize_driver(w, chrome) ==
  IF chrome = "raise" THEN Raise(w, "WebDriverException")
  ELSE IF chrome = "late"
  THEN Raise([w EXCEPT !.self.driver = Some(w.n + 1), !.open = @ \cup {w.n + 1},
                       !.started = @ \cup {w.n + 1}, !.n = @ + 1],
             "WebDriverException")
  ELSE Ret([w EXCEPT !.self.driver = Some(w.n + 1), !.open = @ \cup {w.n + 1},
                     !.started = @ \cup {w.n + 1}, !.n = @ + 1], None)

\* if self.driver: self.driver.quit(); self.driver keeps the quit session
close(w) ==
  IF w.self.driver.some THEN [w EXCEPT !.open = @ \ {w.self.driver.v}] ELSE w

\* self.driver.get(url): raises on a session that was quit
driver_get(w, ok) ==
  IF ok /\ w.self.driver.v \in w.open THEN Ret(w, None)
  ELSE Raise(w, "WebDriverException")

\* one pass of the retry loop of login.  The outcomes of a pass:
\*   "in": the dashboard is reached;  "incorrect": the site refuses, continue
\*   "restart": the captcha solver asks for a new browser, which starts
\*   "restart_raise": it asks for a new browser, which does not start
\*   "error": a step raises and the login page loads again
\*   "error_raise": a step raises and so does loading the login page
RECURSIVE login_attempts(_, _, _)
login_attempts(w, script, attempt) ==
  IF attempt > MAX_RETRIES THEN Ret(w, FALSE)
  ELSE IF script[attempt] = "in" THEN Ret(w, TRUE)
  ELSE IF script[attempt] = "incorrect" THEN login_attempts(w, script, attempt + 1)
  ELSE IF script[attempt] = "restart"
  THEN login_attempts(initialize_driver(close(w), "ok").w, script, attempt + 1)
  ELSE IF script[attempt] = "restart_raise"
  THEN driver_get(initialize_driver(close(w), "raise").w, TRUE)
  ELSE IF script[attempt] = "error"
  THEN IF driver_get(w, TRUE).exc.some THEN driver_get(w, TRUE)
       ELSE login_attempts(w, script, attempt + 1)
  ELSE driver_get(w, FALSE)

\* login(): no try around the browser start and the first page load
login_loaded(w, env) ==
  IF driver_get(w, env.get).exc.some THEN driver_get(w, env.get)
  ELSE IF ~w.self.creds THEN Ret(w, FALSE)
  ELSE login_attempts(w, env.script, 1)

login(w, env) ==
  LET started == initialize_driver(w, env.chrome)
  IN IF w.self.driver.some THEN login_loaded(w, env)
     ELSE IF started.exc.some THEN started
     ELSE login_loaded(started.w, env)

\* the try block of player_signup; page: "done", "refused" or "raise"
signup_form(w, fullname, requested_username, page) ==
  IF ~fullname.some THEN Ret(w, ErrorDict("AttributeError"))
  ELSE IF page = "raise" THEN Ret(Sent(w, "signup"), ErrorDict("TimeoutException"))
  ELSE Ret(Sent(w, "signup"),
           [status |-> IF page = "done" THEN "success" ELSE "failure",
            message |-> IF page = "done" THEN "Added successfully" ELSE "refused",
            username |-> requested_username, password |-> requested_username,
            receipt_link |-> "Receipt generation requires telegram bot instance"])

console_player_signup(w, fullname, requested_username, env) ==
  LET logged == login(w, env)
  IN IF logged.exc.some THEN logged
     ELSE IF ~logged.value THEN Ret(logged.w, ErrorDict("Login failed"))
     ELSE signup_form(logged.w, fullname, requested_username, env.page)

\* the try block of _perform_transaction.  user: "found", "missing" or
\* "raise"; page: "done", "refused", "raise" (before the form is submitted)
\* or "raise_late" (after)
transaction_form(w, username, amount, flow_type, env) ==
  IF ~username.some THEN Ret(w, ErrorDict("AttributeError"))
  ELSE IF env.user = "raise" THEN Ret(w, ErrorDict("TimeoutException"))
  ELSE IF env.user = "missing" THEN Ret(w, ErrorDict("User not found in table"))
  ELSE IF ~amount.some THEN Ret(w, ErrorDict("TypeError"))
  ELSE IF env.page = "raise" THEN Ret(w, ErrorDict("TimeoutException"))
  ELSE IF env.page = "raise_late"
  THEN Ret(Sent(w, IF flow_type = "recharge" THEN "deposit" ELSE "withdraw"),
           ErrorDict("TimeoutException"))
  ELSE Ret(Sent(w, IF flow_type = "recharge" THEN "deposit" ELSE "withdraw"),
           IF env.page = "done" THEN Dict("success", "Confirmed successful")
           ELSE Dict("failure", "refused"))

console_perform_transaction(w, username, amount, flow_type, env) ==
  LET logged == login(w, env)
  IN IF logged.exc.some THEN logged
     ELSE IF ~logged.value THEN Ret(logged.w, ErrorDict("Login failed"))
     ELSE transaction_form(logged.w, username, amount, flow_type, env)

\* the agentLogin call of the service API, all of it inside one try
\* api: "ok", "refused" or "raise"
console_get_agent_balance(w, env) ==
  IF ~w.self.creds THEN Ret(w, Pair(None, "Agent balance fetch failed: AttributeError"))
  ELSE IF env.api = "raise"
  THEN Ret(Sent(w, "agentLogin"), Pair(None, "Agent balance fetch failed: ConnectionError"))
  ELSE IF env.api = "refused" THEN Ret(Sent(w, "agentLogin"), Pair(None, "Unknown API error"))
  ELSE Ret(Sent(w, "agentLogin"), Pair(Some(100), "Success"))

(***************************************************************************)
(* MoolahScraper: every operation starts its own browser and closes it     *)
(***************************************************************************)
\* self.driver = uc.Chrome(options=options)
_initialize_driver(w, chrome) ==
  IF chrome = "raise" THEN Raise(w, "WebDriverException")
  ELSE Ret([w EXCEPT !.self.driver = Some(w.n + 1), !.open = @ \cup {w.n + 1},
                     !.started = @ \cup {w.n + 1}, !.n = @ + 1], None)

\* a close that drops the session without quitting it
moolah_close_dropped(w) == [w EXCEPT !.self.driver = None]

\* if self.driver: self.driver.quit(); self.driver = None
moolah_close(w) ==
  IF w.self.driver.some
  THEN [w EXCEPT !.open = @ \ {w.self.driver.v}, !.self.driver = None]
  ELSE w

\* the retry loop of _login: "in", "incorrect" (break), "restart" (the
\* captcha is not solved: return False), "error", "error_raise"
RECURSIVE _login_attempts(_, _, _)
_login_attempts(w, script, attempt) ==
  IF attempt > MAX_RETRIES THEN Ret(w, FALSE)
  ELSE IF script[attempt] = "in" THEN Ret(w, TRUE)
  ELSE IF script[attempt] \in {"incorrect", "restart", "restart_raise"} THEN Ret(w, FALSE)
  ELSE IF script[attempt] = "error" THEN _login_attempts(w, script, attempt + 1)
  ELSE driver_get(w, FALSE)

_login(w, env) ==
  IF driver_get(w, env.get).exc.some THEN driver_get(w, env.get)
  ELSE IF ~w.self.creds THEN Ret(w, FALSE)
  ELSE _login_attempts(w, env.script, 1)

\* except Exception as e: self.close(); return ...
Closing(r, v) == Ret(moolah_close(r.w), v)

\* the inner try of get_agent_balance.  session: "ok", "lost" or "raise";
\* page: "done", "refused" (a text that is no number) or "raise"
moolah_read_balance(w, env) ==
  IF env.session = "raise" \/ (env.session = "ok" /\ env.page = "raise")
  THEN Ret(moolah_close(w), Pair(None, "TimeoutException"))
  ELSE IF env.session = "lost" THEN Ret(moolah_close(w), Pair(None, "Session issue"))
  ELSE IF env.page = "refused"
  THEN Ret(moolah_close(moolah_close(w)), Pair(None, "ValueError"))
  ELSE Ret(moolah_close(w), Pair(Some(100), "Success"))

moolah_get_agent_balance(w, env) ==
  LET started == _initialize_driver(w, env.chrome)
      logged == _login(started.w, env)
  IN IF ~env.site THEN Ret(w, Pair(None, "Site unreachable"))
     ELSE IF started.exc.some THEN Closing(started, Pair(None, started.exc.v))
     ELSE IF logged.exc.some THEN Closing(logged, Pair(None, logged.exc.v))
     ELSE IF ~logged.value THEN Closing(logged, Pair(None, "Login failed"))
     ELSE moolah_read_balance(logged.w, env)

\* the retry loop of player_signup: a pass that raises is tried again
RECURSIVE moolah_signup_passes(_, _, _, _)
moolah_signup_passes(w, requested_username, pages, pass) ==
  IF pass > MAX_RETRIES
  THEN Ret(moolah_close(w), ErrorDict("Signup failed after retries"))
  ELSE IF pages[pass] = "raise"
  THEN moolah_signup_passes(w, requested_username, pages, pass + 1)
  ELSE IF pages[pass] = "raise_late"
  THEN moolah_signup_passes(Sent(w, "signup"), requested_username, pages, pass + 1)
  ELSE IF pages[pass] = "done"
  THEN Ret(moolah_close(Sent(w, "signup")),
           [status |-> "success", username |-> requested_username,
            password |-> "generated", message |-> "User Signed up successfully!"])
  ELSE Ret(moolah_close(Sent(w, "signup")), ErrorDict("refused"))

moolah_player_signup(w, fullname, requested_username, env) ==
  LET started == _initialize_driver(w, env.chrome)
      logged == _login(started.w, env)
  IN IF started.exc.some THEN Closing(started, ErrorDict(started.exc.v))
     ELSE IF logged.exc.some THEN Closing(logged, ErrorDict(logged.exc.v))
     ELSE IF ~logged.value THEN Closing(logged, ErrorDict("Login failed"))
     ELSE IF ~fullname.some THEN Closing(logged, ErrorDict("AttributeError"))
     ELSE moolah_signup_passes(logged.w, requested_username, env.pages, 1)

\* _perform_transaction_flow: the form of the Recharge or the Redeem link;
\* its own try turns every exception into (False, str(e))
_perform_transaction_flow(w, flow_type, page) ==
  IF page = "raise" THEN Ret(w, [success |-> FALSE, message |-> "TimeoutException"])
  ELSE IF page = "raise_late"
  THEN Ret(Sent(w, IF flow_type = "recharge" THEN "deposit" ELSE "withdraw"),
           [success |-> FALSE, message |-> "TimeoutException"])
  ELSE Ret(Sent(w, IF flow_type = "recharge" THEN "deposit" ELSE "withdraw"),
           [success |-> page = "done",
            message |-> IF page = "done" THEN "Confirmed successful" ELSE "refused"])

\* recharge_user and redeem_user once the agent is logged in.  user:
\* "found", "missing", "raise", "mismatch" (another name on the detail
\* page) or "poor" (a balance below the amount)
moolah_transaction(w, username, amount, flow_type, env) ==
  IF ~amount.some THEN Ret(moolah_close(w), ErrorDict("TypeError"))
  ELSE IF env.user = "missing" THEN Ret(moolah_close(w), ErrorDict("User not found"))
  ELSE IF env.user = "raise" THEN Ret(moolah_close(w), ErrorDict("TimeoutException"))
  ELSE IF env.user = "mismatch" \/ ~username.some
  THEN Ret(moolah_close(w),
           ErrorDict(IF username.some THEN "Username mismatch" ELSE "AttributeError"))
  ELSE IF flow_type = "redeem" /\ env.user = "poor"
  THEN Ret(moolah_close(w), ErrorDict("Insufficient player balance"))
  ELSE LET flow == _perform_transaction_flow(w, flow_type, env.page)
       IN IF flow.value.success
          THEN Ret(moolah_close(flow.w),
                   [status |-> "success", message |-> flow.value.message,
                    before_balance |-> 10, after_balance |-> 10])
          ELSE Ret(moolah_close(flow.w), ErrorDict(flow.value.message))

moolah_perform(w, username, amount, flow_type, env) ==
  LET started == _initialize_driver(w, env.chrome)
      logged == _login(started.w, env)
  IN IF started.exc.some THEN Closing(started, ErrorDict(started.exc.v))
     ELSE IF logged.exc.some THEN Closing(logged, ErrorDict(logged.exc.v))
     ELSE IF ~logged.value THEN Closing(logged, ErrorDict("Login failed"))
     ELSE moolah_transaction(logged.w, username, amount, flow_type, env)

moolah_recharge_user(w, username, amount, env) ==
  moolah_perform(w, username, amount, "recharge", env)
moolah_redeem_user(w, username, amount, env) ==
  moolah_perform(w, username, amount, "redeem", env)

(***************************************************************************)
(* The scrapers that call the site's HTTP API.  Juwa777, GameVault999,     *)
(* CashFrenzy777, LasVegasSweeps, Juwa2 and VegasX take their token from a *)
(* browser session (_fetch_token_selenium); VBlink777 and EGame99 sign in  *)
(* over HTTP.  Each operation is one try block.                            *)
(***************************************************************************)
\* driver = uc.Chrome(...); try: ... finally: driver.quit().  chrome:
\* "ok" or "raise"; token: whether the headers were found in the log
_fetch_token_selenium(w, chrome, token) ==
  IF chrome = "raise" THEN Raise(w, "WebDriverException")
  ELSE Ret([w EXCEPT !.open = (@ \cup {w.n + 1}) \ {w.n + 1},
                     !.started = @ \cup {w.n + 1}, !.n = @ + 1,
                     !.self.token = @ \/ token],
           w.self.token \/ token)

\* if not self._fetch_token_selenium(): raise Exception(...)
authenticate(w, env) ==
  IF w.self.game \in SignedGames
  THEN IF env.token THEN Ret(Sent(w, "login"), None)
       ELSE Raise(Sent(w, "login"), "Exception")
  ELSE LET fetched == _fetch_token_selenium(w, env.chrome, env.token)
       IN IF fetched.exc.some THEN fetched
          ELSE IF fetched.value THEN Ret(fetched.w, None)
          ELSE Raise(fetched.w, "Exception")

\* if not self.token: self.authenticate()
_get_headers(w, env) ==
  IF w.self.game \in TokenGames /\ w.self.token THEN Ret(w, None)
  ELSE authenticate(w, env)

\* int(float(amount)) of an amount given in halves: towards zero
int_float(amount) ==
  IF amount >= 0 THEN amount \div 2 ELSE 0 - ((0 - amount) \div 2)

\* VegasX: the sign of the amount chooses the endpoint, the method does not
vegasx_endpoint(flow_type, amount) ==
  IF int_float(amount) > 0 THEN "deposit" ELSE "withdraw"

\* VBlink777: likewise
vblink777_endpoint(flow_type, amount) ==
  IF int_float(amount) < 0 THEN "withdraw" ELSE "deposit"

\* the other classes: opera_type, or the URL, from flow_type
flow_endpoint(flow_type, amount) ==
  IF flow_type = "withdraw" THEN "withdraw" ELSE "deposit"

endpoint_of(game, flow_type, amount) ==
  IF game = "vegasx" THEN vegasx_endpoint(flow_type, amount)
  ELSE IF game = "vblink777" THEN vblink777_endpoint(flow_type, amount)
  ELSE flow_endpoint(flow_type, amount)

\* the classes that ask _check_site_status before a transaction
ChecksSite == {"vegasx", "vblink777"}

\* _perform_transaction after authentication.  user: "found", "missing"
\* or "raise"; page: "done", "refused", "raise" or "raise_late"
api_transaction(w, username, amount, flow_type, env) ==
  IF env.user = "raise" THEN Ret(w, ErrorDict("ConnectionError"))
  ELSE IF env.user = "missing" THEN Ret(w, ErrorDict("User not found"))
  ELSE IF ~username.some THEN Ret(w, ErrorDict("AttributeError"))
  ELSE IF ~amount.some THEN Ret(w, ErrorDict("TypeError"))
  ELSE IF env.page = "raise" THEN Ret(w, ErrorDict("ConnectionError"))
  ELSE IF env.page = "raise_late"
  THEN Ret(Sent(w, endpoint_of(w.self.game, flow_type, amount.v)),
           ErrorDict("JSONDecodeError"))
  ELSE Ret(Sent(w, endpoint_of(w.self.game, flow_type, amount.v)),
           IF env.page = "done" THEN Dict("success", "Success")
           ELSE Dict("error", "Transaction failed"))

api_perform_transaction(w, username, amount, flow_type, env) ==
  LET headers == _get_headers(w, env)
  IN IF w.self.game \in ChecksSite /\ ~env.site THEN Ret(w, ErrorDict("Site offline"))
     ELSE IF headers.exc.some THEN Ret(headers.w, ErrorDict(headers.exc.v))
     ELSE api_transaction(headers.w, username, amount, flow_type, env)

\* EGame99 signs up without signing in and reads fullname only to make up
\* a username
api_player_signup(w, fullname, requested_username, env) ==
  IF ~fullname.some /\ (w.self.game # "egame99" \/ ~requested_username.some)
  THEN Ret(w, ErrorDict("AttributeError"))
  ELSE IF w.self.game = "egame99"
  THEN Ret(Sent(w, "signup"),
           IF env.page \in {"raise", "raise_late"} THEN ErrorDict("ConnectionError")
           ELSE IF env.page = "done"
           THEN [status |-> "success", username |-> requested_username,
                 password |-> "generated", message |-> "User Signed up successfully!"]
           ELSE ErrorDict("Unknown error"))
  ELSE LET headers == _get_headers(w, env)
       IN IF headers.exc.some THEN Ret(headers.w, ErrorDict(headers.exc.v))
          ELSE IF env.page \in {"raise", "raise_late"}
          THEN Ret(Sent(headers.w, "signup"), ErrorDict("ConnectionError"))
          ELSE IF env.page = "done"
          THEN Ret(Sent(headers.w, "signup"),
                   [status |-> "success", username |-> requested_username,
                    password |-> "generated",
                    message |-> "User Signed up successfully!"])
          ELSE Ret(Sent(headers.w, "signup"), ErrorDict("Signup failed"))

api_get_agent_balance(w, env) ==
  LET headers == _get_headers(w, env)
  IN IF ~env.site THEN Ret(w, Pair(None, "Site unreachable"))
     ELSE IF headers.exc.some THEN Ret(headers.w, Pair(None, headers.exc.v))
     ELSE IF env.api = "raise"
     THEN Ret(Sent(headers.w, "balance"), Pair(None, "ConnectionError"))
     ELSE IF env.api = "refused"
     THEN Ret(Sent(headers.w, "balance"), Pair(None, "Failed to fetch balance"))
     ELSE Ret(Sent(headers.w, "balance"), Pair(Some(100), "Success"))

(***************************************************************************)
(* The interface of BaseGameScraper: the method of the instance's class    *)
(***************************************************************************)
get_agent_balance(w, env) ==
  IF w.self.game \in ConsoleGames THEN console_get_agent_balance(w, env)
  ELSE IF w.self.game = "moolah" THEN moolah_get_agent_balance(w, env)
  ELSE api_get_agent_balance(w, env)

\* VegasXScraper defines no player_signup: the call raises AttributeError
player_signup(w, fullname, requested_username, env) ==
  IF w.self.game \in ConsoleGames
  THEN console_player_signup(w, fullname, requested_username, env)
  ELSE IF w.self.game = "moolah"
  THEN moolah_player_signup(w, fullname, requested_username, env)
  ELSE IF w.self.game = "vegasx" THEN Raise(w, "AttributeError")
  ELSE api_player_signup(w, fullname, requested_username, env)

recharge_user(w, username, amount, env) ==
  IF w.self.game \in ConsoleGames
  THEN console_perform_transaction(w, username, amount, "recharge", env)
  ELSE IF w.self.game = "moolah" THEN moolah_recharge_user(w, username, amount, env)
  ELSE api_perform_transaction(w, username, amount, "deposit", env)

redeem_user(w, username, amount, env) ==
  IF w.self.game \in ConsoleGames
  THEN console_perform_transaction(w, username, amount, "redeem", env)
  ELSE IF w.self.game = "moolah" THEN moolah_redeem_user(w, username, amount, env)
  ELSE api_perform_transaction(w, username, amount, "withdraw", env)

(***************************************************************************)
(* The worker task (app/worker/tasks.py)                                   *)
(***************************************************************************)
\* the game names pandamaster_action has a branch for
WorkerGames ==
  {"pandamaster", "firekirin", "orionstars", "milkywayapp", "juwa777", "vegasx",
   "vblink777", "gamevault999", "ultrapanda", "cashfrenzy777", "cashmachine777"}

\* the branches that import a module the repository does not have
MissingModules == {"firekirin", "milkywayapp", "ultrapanda", "cashmachine777"}

\* the try block: the action on the scraper just constructed
worker_action(w, action_type, kwargs, env) ==
  IF action_type = "agent_balance"
  THEN LET fetched == get_agent_balance(w, env)
       IN IF fetched.exc.some THEN fetched
          ELSE Ret(fetched.w,
                   [status |-> IF fetched.value.balance.some THEN "success" ELSE "failure",
                    balance |-> fetched.value.balance,
                    message |-> fetched.value.message])
  ELSE IF action_type = "signup"
  THEN player_signup(w, kwargs.fullname, kwargs.requested_username, env)
  ELSE IF action_type = "recharge" THEN recharge_user(w, kwargs.username, kwargs.amount, env)
  ELSE IF action_type = "redeem" THEN redeem_user(w, kwargs.username, kwargs.amount, env)
  ELSE Ret(w, ErrorDict("Unknown action"))

\* finally: if scraper and scraper.driver: scraper.close().  An exception
\* raised here replaces the value the task was about to return
worker_finally(r) ==
  IF r.w.self.game \notin HasDriver THEN Raise(r.w, "AttributeError")
  ELSE IF r.w.self.game = "moolah" THEN [r EXCEPT !.w = moolah_close(r.w)]
  ELSE [r EXCEPT !.w = close(r.w)]

\* except Exception as e: return {"status": "error", "message": str(e)}
worker_try(w, action_type, kwargs, env) ==
  LET done == worker_action(w, action_type, kwargs, env)
  IN IF done.exc.some THEN Ret(done.w, ErrorDict(done.exc.v)) ELSE done

\* w.self is the scraper the task constructs: no try covers the import and
\* the constructor
pandamaster_action(w, action_type, game_name, kwargs, configured, env) ==
  LET made == __init__(game_name, FALSE, configured)
  IN IF game_name \notin WorkerGames THEN Ret(w, ErrorDict("Unsupported game"))
     ELSE IF game_name \in MissingModules THEN Raise(w, "ModuleNotFoundError")
     ELSE IF made.exc.some THEN Raise(w, made.exc.v)
     ELSE worker_finally(worker_try([w EXCEPT !.self = made.w], action_type, kwargs, env))

(***************************************************************************)
(* Calls of the scraper layer                                              *)
(***************************************************************************)
MaxDrivers == 2   \* browser sessions started over a run

Fullnames == {None, Some("John Doe")}
\* amounts in halves: none given, 0.5 and 5.0
Amounts == {None, Some(1), Some(10)}
\* the player and the amount of a transaction
Transfers ==
  {[username |-> Some("player1"), amount |-> m] : m \in Amounts}
  \cup {[username |-> None, amount |-> Some(10)]}

LoginScripts ==
  {<<"in", "in">>, <<"incorrect", "incorrect">>, <<"restart", "in">>,
   <<"restart", "restart">>, <<"restart_raise", "in">>, <<"error", "in">>,
   <<"incorrect", "error_raise">>}

\* everything goes well
HappyEnv ==
  [chrome |-> "ok", get |-> TRUE, script |-> <<"in", "in">>, page |-> "done",
   pages |-> <<"done", "done">>, user |-> "found", api |-> "ok", site |-> TRUE,
   session |-> "ok", token |-> TRUE]

\* one thing goes wrong
Envs ==
  {[HappyEnv EXCEPT !.chrome = c] : c \in {"ok", "raise", "late"}}
  \cup {[HappyEnv EXCEPT !.get = FALSE], [HappyEnv EXCEPT !.site = FALSE],
        [HappyEnv EXCEPT !.token = FALSE]}
  \cup {[HappyEnv EXCEPT !.script = s] : s \in LoginScripts}
  \cup {[HappyEnv EXCEPT !.page = p] : p \in {"refused", "raise", "raise_late"}}
  \cup {[HappyEnv EXCEPT !.pages = p] :
          p \in {<<"raise", "done">>, <<"raise_late", "raise">>, <<"refused", "done">>}}
  \cup {[HappyEnv EXCEPT !.user = u] : u \in {"missing", "raise", "mismatch", "poor"}}
  \cup {[HappyEnv EXCEPT !.api = a] : a \in {"refused", "raise"}}
  \cup {[HappyEnv EXCEPT !.session = s] : s \in {"lost", "raise"}}

World(self) ==
  [self |-> self, open |-> open_drivers, n |-> driver_count, sent |-> <<>>,
   started |-> {}]

\* the call ended as r
Called(call, game, args, r) ==
  /\ r.w.n <= MaxDrivers
  /\ open_drivers' = r.w.open
  /\ driver_count' = r.w.n
  /\ outcome' = [call |-> call, game |-> game, args |-> args, exc |-> r.exc,
                 value |-> r.value, sent |-> r.w.sent, started |-> r.w.started]
  /\ UNCHANGED <<ENVIRONMENT, valid_keys, client, resp, crud_vars, bot_vars, telegram_vars,
               race_vars,
               service_vars>>

\* a method of the instance the caller holds
Method(call, args, r) ==
  /\ scraper.game # "none"
  /\ scraper' = r.w.self
  /\ Called(call, scraper.game, args, r)

\* a caller constructs a scraper, with or without credentials
NewScraper ==
  \E game \in Games, given \in BOOLEAN, configured \in BOOLEAN :
    /\ scraper' = IF __init__(game, given, configured).exc.some THEN scraper
                  ELSE __init__(game, given, configured).w
    /\ Called("__init__", game, [NoArgs EXCEPT !.configured = configured],
              [w |-> World(scraper), exc |-> __init__(game, given, configured).exc,
               value |-> <<>>])

GetAgentBalance ==
  \E env \in Envs :
    Method("get_agent_balance", NoArgs, get_agent_balance(World(scraper), env))

PlayerSignup ==
  \E fullname \in Fullnames, env \in Envs :
    Method("player_signup",
           [NoArgs EXCEPT !.fullname = fullname, !.requested_username = Some("player1")],
           player_signup(World(scraper), fullname, Some("player1"), env))

RechargeUser ==
  \E t \in Transfers, env \in Envs :
    Method("recharge_user", [NoArgs EXCEPT !.username = t.username, !.amount = t.amount],
           recharge_user(World(scraper), t.username, t.amount, env))

RedeemUser ==
  \E t \in Transfers, env \in Envs :
    Method("redeem_user", [NoArgs EXCEPT !.username = t.username, !.amount = t.amount],
           redeem_user(World(scraper), t.username, t.amount, env))

\* scraper.close(), which three of the classes define
Close ==
  /\ scraper.game \in ConsoleGames \cup {"moolah"}
  /\ Method("close", NoArgs,
            Ret(IF scraper.game = "moolah" THEN moolah_close(World(scraper))
                ELSE close(World(scraper)), <<>>))

\* the caller lets go of its instance, closed or not
Discard ==
  /\ scraper.game # "none"
  /\ scraper' = NoScraper
  /\ Called("discard", scraper.game, NoArgs, Ret(World(scraper), <<>>))

\* the worker runs one task with a scraper of its own
\* the tasks the API queues, and some it could: action_type and kwargs
TaskSamples ==
  {[NoArgs EXCEPT !.action_type = "agent_balance"],
   [NoArgs EXCEPT !.action_type = "signup"],
   [NoArgs EXCEPT !.action_type = "signup", !.fullname = Some("John Doe")],
   [NoArgs EXCEPT !.action_type = "deposit", !.username = Some("player1"),
                  !.amount = Some(10)]}
  \cup {[NoArgs EXCEPT !.action_type = a, !.username = Some("player1"), !.amount = m] :
          a \in {"recharge", "redeem"}, m \in Amounts}

\* the task's scraper is its own: the caller's instance plays no part
PandamasterAction ==
  \E task \in TaskSamples, game_name \in WorkerGames \cup {"moolah"},
     configured \in BOOLEAN :
   \E env \in IF game_name = "pandamaster" THEN Envs ELSE {HappyEnv} :
    /\ scraper = NoScraper
    /\ scraper' = scraper
    /\ Called("pandamaster_action", game_name, [task EXCEPT !.configured = configured],
              pandamaster_action(World(NoScraper), task.action_type, game_name, task,
                                 configured, env))

InitScrapers ==
  /\ ENVIRONMENT = "development"
  /\ IdleAuth
  /\ IdleCrud
  /\ IdleBots
  /\ IdleScrapers
  /\ IdleTelegram
  /\ IdleRace
  /\ IdleServices

NextScrapers ==
  \/ NewScraper \/ GetAgentBalance \/ PlayerSignup \/ RechargeUser \/ RedeemUser
  \/ Close \/ Discard \/ PandamasterAction

(***************************************************************************)
(* Properties of the scraper layer and the worker                          *)
(***************************************************************************)
\* the operations of the scraper interface that answer with a dict
DictCalls == {"player_signup", "recharge_user", "redeem_user"}
\* what the last call sent to the site, as a set
SentTo == {outcome.sent[i] : i \in DOMAIN outcome.sent}

\* C11: player_signup, recharge_user and redeem_user of every scraper return
\* a dict with 'status' and 'message' whatever happens, and get_agent_balance
\* returns its pair: no exception leaves any of the four operations
C11_AsStated ==
  /\ outcome.call \in DictCalls =>
       /\ ~outcome.exc.some
       /\ {"status", "message"} \subseteq DOMAIN outcome.value
  /\ outcome.call = "get_agent_balance" =>
       /\ ~outcome.exc.some
       /\ DOMAIN outcome.value = {"balance", "message"}

\* C12: with an amount above zero, recharge_user sends nothing to the
\* withdraw endpoint and redeem_user sends nothing to the deposit endpoint,
\* called on a scraper or as the worker's recharge and redeem actions
C12_AsStated ==
  (outcome.args.amount.some /\ outcome.args.amount.v > 0) =>
    /\ (\/ outcome.call = "recharge_user"
        \/ outcome.call = "pandamaster_action" /\ outcome.args.action_type = "recharge")
       => "withdraw" \notin SentTo
    /\ (\/ outcome.call = "redeem_user"
        \/ outcome.call = "pandamaster_action" /\ outcome.args.action_type = "redeem")
       => "deposit" \notin SentTo

\* C13: pandamaster_action returns a dict with a 'status' key for every
\* game_name and action_type and never raises
C13_AsStated ==
  outcome.call = "pandamaster_action" =>
    /\ ~outcome.exc.some
    /\ "status" \in DOMAIN outcome.value

\* the operations that may start a browser session
SessionCalls == DictCalls \cup {"get_agent_balance"}

\* C14 as stated: every browser session a scraper operation starts is
\* discarded before the operation returns
C14_AsStated ==
  outcome.call \in SessionCalls \cup {"pandamaster_action"} =>
    outcome.started \cap open_drivers = {}

\* C14: after a Moolah operation its session is quit and self.driver is
\* None; a session started to fetch a token is quit before the operation
\* returns; when pandamaster_action is over, none of the sessions it started
\* is open.  (PandaMasterScraper and OrionStarsScraper keep their session
\* until close().)
C14_SessionsDiscarded ==
  /\ (outcome.call \in SessionCalls /\ outcome.game = "moolah") =>
       /\ outcome.started \cap open_drivers = {}
       /\ scraper.driver = None
  /\ (outcome.call \in SessionCalls /\ outcome.game \in TokenGames) =>
       outcome.started \cap open_drivers = {}
  /\ outcome.call = "pandamaster_action" =>
       outcome.started \cap open_drivers = {}

\* a Moolah transaction that started a session and failed half-way has
\* returned, and a worker task that started a session is over
C14_Witness ==
  \/ /\ outcome.call = "redeem_user"
     /\ outcome.game = "moolah"
     /\ outcome.started # {}
     /\ outcome.value = ErrorDict("TimeoutException")
  \/ /\ outcome.call = "pandamaster_action"
     /\ outcome.started # {}
     /\ outcome.value = ErrorDict("WebDriverException")

(***************************************************************************)
(* The command handler (app/services/command_handler.py).  The text of a   *)
(* message is the sequence of its characters; the names of commands and    *)
(* bots are strings, Chars gives their characters.                         *)
(***************************************************************************)
Chars ==
  [bot1 |-> <<98, 111, 116, 49>>, bot2 |-> <<98, 111, 116, 50>>, start |-> <<115, 116, 97, 114, 116>>,
   help |-> <<104, 101, 108, 112>>, scrape |-> <<115, 99, 114, 97, 112, 101>>, batch |-> <<98, 97, 116, 99, 104>>,
   status |-> <<115, 116, 97, 116, 117, 115>>, cancel |-> <<99, 97, 110, 99, 101, 108>>]

\* the characters up to the first whitespace
RECURSIVE word(_)
word(s) == IF s = <<>> \/ IsSpace(s[1]) THEN <<>> ELSE <<s[1]>> \o word(Tail(s))

str_lower(s) == [i \in 1..Len(s) |-> lower(s[i])]

\* TelegramUpdate.from_dict: the command and its arguments.  For a text
\* that starts with "/": parts = text.split(maxsplit=1), the command is
\* parts[0] up to "@" without the slash
from_dict(data) ==
  LET text == data.text
      first == word(text)
      rest == lstrip(SubSeq(text, Len(first) + 1, Len(text)))
  IN IF text # <<>> /\ text[1] = 47
     THEN [user_id |-> data.user_id, is_bot |-> data.is_bot, text |-> text,
           command |-> Some(Tail(split(first, 64, <<>>)[1])),
           command_args |-> IF rest = <<>> THEN None ELSE Some(rest)]
     ELSE [user_id |-> data.user_id, is_bot |-> data.is_bot, text |-> text,
           command |-> None, command_args |-> None]

\* [-\w.] for the characters of the samples: letters, digits, "_", "-", "."
IsHostChar(c) ==
  \/ (c >= 97 /\ c <= 122)
  \/ (c >= 65 /\ c <= 90)
  \/ (c >= 48 /\ c <= 57)
  \/ c \in {95, 45, 46}
IsHexDigit(c) ==
  \/ (c >= 48 /\ c <= 57)
  \/ (c >= 97 /\ c <= 102)
  \/ (c >= 65 /\ c <= 70)

\* URL_PATTERN matches at the start of s: https?:// and a host character
\* or a %hh escape, case ignored
url_at(s) ==
  LET low == str_lower(s)
      n == IF startswith(low, <<104, 116, 116, 112, 58, 47, 47>>) THEN 7
           ELSE IF startswith(low, <<104, 116, 116, 112, 115, 58, 47, 47>>) THEN 8 ELSE 0
  IN /\ n > 0
     /\ Len(s) > n
     /\ \/ IsHostChar(s[n + 1])
        \/ /\ s[n + 1] = 37
           /\ Len(s) >= n + 3
           /\ IsHexDigit(s[n + 2])
           /\ IsHexDigit(s[n + 3])

\* URL_PATTERN.findall: a match runs on to the next whitespace
RECURSIVE findall(_)
findall(s) ==
  IF s = <<>> THEN <<>>
  ELSE IF url_at(s)
  THEN <<word(s)>> \o findall(SubSeq(s, Len(word(s)) + 1, Len(s)))
  ELSE findall(Tail(s))

\* user_id in bot.allowed_users
in_list(x, list) == \E i \in DOMAIN list : list[i] = x

\* a permission check that lets everyone in
is_user_allowed_anyone(registry, bot_id, user_id) == TRUE

\* BotManager.is_user_allowed
is_user_allowed(registry, bot_id, user_id) ==
  IF bot_id \notin DOMAIN registry THEN FALSE
  ELSE IF registry[bot_id].allowed_users = <<>> THEN TRUE
  ELSE user_id.some /\ in_list(user_id.v, registry[bot_id].allowed_users)

\* command in bot.allowed_commands, the command in characters
command_in(command, names) ==
  \E i \in DOMAIN names : names[i] \in DOMAIN Chars /\ Chars[names[i]] = command

\* what handle_update returned and which scraper call it made
Handled(result, scraped) == [result |-> result, scraped |-> scraped]

\* _cmd_scrape.  site: "ok" or "raise" (selenium_scraper.scrape raises)
_cmd_scrape(update, site) ==
  IF findall(IF update.command_args.some THEN update.command_args.v ELSE <<>>) = <<>>
  THEN Handled("No URL provided", "none")
  ELSE Handled(IF site = "raise" THEN "error" ELSE "scrape", "scrape")

\* _cmd_batch: scrape_multiple is called outside any try
_cmd_batch(update, site) ==
  IF findall(IF update.command_args.some THEN update.command_args.v ELSE <<>>) = <<>>
  THEN Handled("No URLs provided", "none")
  ELSE Handled(IF site = "raise" THEN "raised" ELSE "batch", "scrape_multiple")

\* _handle_command: command = update.command.lower()
_handle_command(bot, update, site) ==
  LET command == str_lower(update.command.v)
  IN IF ~command_in(command, bot.allowed_commands)
        /\ command \notin {Chars["start"], Chars["help"]}
     THEN Handled("Command not allowed", "none")
     ELSE IF command = Chars["start"] THEN Handled("start", "none")
     ELSE IF command = Chars["help"] THEN Handled("help", "none")
     ELSE IF command = Chars["scrape"] THEN _cmd_scrape(update, site)
     ELSE IF command = Chars["batch"] THEN _cmd_batch(update, site)
     ELSE IF command = Chars["status"] THEN Handled("status", "none")
     ELSE IF command = Chars["cancel"] THEN Handled("cancel", "none")
     ELSE Handled("Unknown command", "none")

\* _handle_auto_scrape: the first URL of the text, in a try
_handle_auto_scrape(bot, update, site) ==
  Handled(IF site = "raise" THEN "error" ELSE "auto_scrape", "scrape")

\* CommandHandler.handle_update.  The registry holds a client for every
\* bot it holds
handle_update(registry, bot_id, update_data, site) ==
  LET update == from_dict(update_data)
  IN IF bot_id \notin DOMAIN registry THEN Handled("Bot not found", "none")
     ELSE IF ~registry[bot_id].is_active THEN Handled("Bot is inactive", "none")
     ELSE IF update.is_bot THEN Handled("Ignored bot message", "none")
     ELSE IF ~is_user_allowed(registry, bot_id, update.user_id)
     THEN Handled("User not authorized", "none")
     ELSE IF update.command.some /\ update.command.v # <<>>
     THEN _handle_command(registry[bot_id], update, site)
     ELSE IF findall(update.text) # <<>>
     THEN _handle_auto_scrape(registry[bot_id], update, site)
     ELSE Handled("No action taken", "none")

(***************************************************************************)
(* The bot API (app/api/v1/webhooks.py and app/api/v1/bots.py), behind the *)
(* API-key middleware.  webhooks_router is included before bots_router, so *)
(* PATCH and DELETE /bots/{bot_id} are served by the handlers of           *)
(* webhooks.py.  A handler answers with the registry it leaves, whether it *)
(* was saved, the status, and the background task it queued.               *)
(***************************************************************************)
Api(registry, saved, status, detail, task) ==
  [registry |-> registry, saved |-> saved, status |-> status, detail |-> detail,
   task |-> task]

P_webhook(bot_id) == API_V1_PREFIX \o <<47, 119, 101, 98, 104, 111, 111, 107, 47>> \o Chars[bot_id]
P_bots == API_V1_PREFIX \o <<47, 98, 111, 116, 115>>
P_bots_register == API_V1_PREFIX \o <<47, 98, 111, 116, 115, 47, 114, 101, 103, 105, 115, 116, 101, 114>>
P_bots_register_bulk == API_V1_PREFIX \o <<47, 98, 111, 116, 115, 47, 114, 101, 103, 105, 115, 116, 101, 114, 47, 98, 117, 108, 107>>
P_bot(bot_id) == API_V1_PREFIX \o <<47, 98, 111, 116, 115, 47>> \o Chars[bot_id]
P_webhooks_setup == API_V1_PREFIX \o <<47, 119, 101, 98, 104, 111, 111, 107, 115, 47, 115, 101, 116, 117, 112>>

\* APIKeyMiddleware.dispatch up to call_next, in front of a route of the bot
\* API: the message of the 401 it answers, or None when it lets the request
\* through.  api_key is the X-API-Key header
refusal(keys, env, path, api_key) ==
  IF _is_exempt(path) THEN None
  ELSE IF ~api_key.some \/ api_key.v = <<>> THEN Some("Missing X-API-Key header")
  ELSE IF ~validate(keys, env, api_key.v, TRUE).is_valid THEN Some("Invalid API key")
  ELSE None

\* answer: what the route handler returns if it is called
behind_middleware(keys, env, registry, path, api_key, answer) ==
  LET r == refusal(keys, env, path, api_key)
  IN IF r.some THEN Api(registry, FALSE, 401, r.v, None) ELSE answer

\* POST /webhook/{bot_id}.  secret_token: the X-Telegram-Bot-Api-Secret-Token
\* header; json: whether the body parses
telegram_webhook(registry, bot_id, secret_token, json, update_data) ==
  IF bot_id \notin DOMAIN registry THEN Api(registry, FALSE, 404, "Bot not found", None)
  ELSE IF /\ registry[bot_id].webhook_secret.some
          /\ registry[bot_id].webhook_secret.v # <<>>
          /\ secret_token # registry[bot_id].webhook_secret
  THEN Api(registry, FALSE, 403, "Invalid secret", None)
  ELSE IF ~json THEN Api(registry, FALSE, 400, "Invalid JSON", None)
  ELSE Api(registry, FALSE, 200, "ok",
           Some([bot_id |-> bot_id, update_data |-> update_data]))

\* bot = await bot_manager.register_bot(bot_id=config.bot_id, ...): the
\* keyword arguments the handler passes
bots_register_call(registry, config) ==
  register_bot(registry, config.bot_id, config.bot_token, config.bot_name,
               config.channel_id, config.allowed_users, config.is_active,
               [default_wait_time |-> config.default_wait_time,
                default_timeout |-> config.default_timeout,
                take_screenshot |-> config.take_screenshot,
                send_to_channel |-> config.send_to_channel])

\* POST /bots/register (bots.py).  get_me: whether Telegram accepts the token
bots_register_bot(registry, config, get_me) ==
  LET registered == bots_register_call(registry, config)
  IN IF config.bot_id \in DOMAIN registry
     THEN Api(registry, FALSE, 409, "already exists", None)
     ELSE IF ~get_me
     THEN Api(unregister_bot(registered, config.bot_id), TRUE, 400, "Invalid bot token", None)
     ELSE Api(registered, TRUE, 201, "", None)

\* bot = await bot_manager.register_bot(bot_id=request.bot_id, ...) of
\* webhooks.py
webhooks_register_call(registry, request) ==
  register_bot(registry, request.bot_id, request.bot_token, request.bot_name,
               request.channel_id, request.allowed_users, TRUE,
               [take_screenshot |-> request.take_screenshot,
                default_wait_time |-> request.default_wait_time,
                default_timeout |-> request.default_timeout])

\* POST /bots (webhooks.py): BotRegisterRequest has no allowed_commands,
\* is_active or send_to_channel
webhooks_register_bot(registry, request, get_me) ==
  LET registered == webhooks_register_call(registry, request)
  IN IF request.bot_id \in DOMAIN registry
     THEN Api(registry, FALSE, 400, "already exists", None)
     ELSE IF ~get_me
     THEN Api(unregister_bot(registered, request.bot_id), TRUE, 400, "Invalid bot token", None)
     ELSE Api(registered, TRUE, 201, "", None)

\* the loop of register_bots_bulk: every bot of the list is registered
RECURSIVE register_each(_, _)
register_each(registry, list) ==
  IF list = <<>> THEN registry
  ELSE register_each(
         register_bot(registry, list[1].bot_id, list[1].bot_token, list[1].bot_name,
                      list[1].channel_id, list[1].allowed_users, list[1].is_active,
                      [default_wait_time |-> list[1].default_wait_time,
                       default_timeout |-> list[1].default_timeout,
                       take_screenshot |-> list[1].take_screenshot,
                       send_to_channel |-> list[1].send_to_channel]),
         Tail(list))

\* POST /bots/register/bulk
register_bots_bulk(registry, list) ==
  Api(register_each(registry, list), TRUE, 200, "registered", None)

\* PATCH /bots/{bot_id}: update_data is the fields of BotUpdateRequest the
\* request set
webhooks_update_bot(registry, bot_id, update_data) ==
  IF bot_id \notin DOMAIN registry THEN Api(registry, FALSE, 404, "Bot not found", None)
  ELSE Api(update_bot(registry, bot_id, update_data), TRUE, 200, "", None)

\* DELETE /bots/{bot_id}
delete_bot(registry, bot_id) ==
  IF bot_id \notin DOMAIN registry THEN Api(registry, FALSE, 404, "Bot not found", None)
  ELSE Api(unregister_bot(registry, bot_id), TRUE, 204, "", None)

\* POST /webhooks/setup: secret = request.secret or secrets.token_hex(32)
webhooks_setup_webhooks(registry, base_url, secret, token_hex, ok) ==
  Api(setup_webhooks(registry, base_url,
                     IF secret.some /\ secret.v # <<>> THEN secret ELSE Some(token_hex), ok),
      TRUE, 200, "", None)

(***************************************************************************)
(* Requests to the bot API and the updates Telegram delivers               *)
(***************************************************************************)
MaxTasks == 1   \* handle_update calls waiting to run

\* the webhook secrets: the one an operator chose, the generated one
OperatorSecret == <<115, 51>>
GeneratedSecret == <<57, 102>>

\* the bots the samples register; the webhook of every bot of BotIds is called
BotCreateIds == {"bot1"}

BotCreateSamples ==
  {[bot_id |-> b, bot_token |-> "111:AAA", bot_name |-> "One", channel_id |-> "@one",
    allowed_users |-> <<>>, allowed_commands |-> DefaultCommands, is_active |-> TRUE,
    default_wait_time |-> 5, default_timeout |-> 30, take_screenshot |-> TRUE,
    send_to_channel |-> TRUE] : b \in BotCreateIds}
  \cup
  {[bot_id |-> "bot1", bot_token |-> "222:BBB", bot_name |-> "Two",
    channel_id |-> "-1002", allowed_users |-> <<7>>, allowed_commands |-> <<"scrape">>,
    is_active |-> TRUE, default_wait_time |-> 0, default_timeout |-> 60,
    take_screenshot |-> FALSE, send_to_channel |-> FALSE]}

BulkSamples ==
  {<<c>> : c \in BotCreateSamples}
  \cup {<<c, d>> : c \in {x \in BotCreateSamples : x.bot_name = "One"},
                   d \in {x \in BotCreateSamples : x.bot_name = "Two"}}

BotUpdateRequestSamples == {[is_active |-> FALSE], [is_active |-> TRUE]}

Texts ==
  {<<47, 115, 99, 114, 97, 112, 101, 32, 104, 116, 116, 112, 115, 58, 47, 47, 97, 46, 105, 111>>, <<47, 83, 67, 82, 65, 80, 69, 32, 104, 116, 116, 112, 115, 58, 47, 47, 97, 46, 105, 111>>, <<47, 115, 99, 114, 97, 112, 101>>,
   <<47, 98, 97, 116, 99, 104, 32, 104, 116, 116, 112, 115, 58, 47, 47, 97, 46, 105, 111, 32, 104, 116, 116, 112, 58, 47, 47, 98, 46, 105, 111>>, <<47, 115, 116, 97, 116, 117, 115>>, <<47, 99, 97, 110, 99, 101, 108>>,
   <<47, 115, 116, 97, 114, 116>>, <<104, 116, 116, 112, 115, 58, 47, 47, 97, 46, 105, 111>>, <<104, 101, 108, 108, 111>>}

\* a greeting from user 7
Hello == [user_id |-> Some(7), is_bot |-> FALSE, text |-> <<104, 101, 108, 108, 111>>]

UpdateSamples ==
  {[user_id |-> Some(7), is_bot |-> FALSE, text |-> t] : t \in Texts}
  \cup {[user_id |-> Some(8), is_bot |-> FALSE, text |-> <<47, 115, 99, 114, 97, 112, 101, 32, 104, 116, 116, 112, 115, 58, 47, 47, 97, 46, 105, 111>>],
        [user_id |-> None, is_bot |-> FALSE, text |-> <<115, 101, 101, 32, 72, 84, 84, 80, 58, 47, 47, 65, 46, 105, 111, 47, 120>>],
        [user_id |-> Some(9), is_bot |-> TRUE, text |-> <<47, 115, 99, 114, 97, 112, 101, 32, 104, 116, 116, 112, 115, 58, 47, 47, 97, 46, 105, 111>>]}

\* the secret Telegram sends for a bot: the one setWebhook was given
configured_secret(registry, bot_id) ==
  IF bot_id \in DOMAIN registry THEN registry[bot_id].webhook_secret ELSE None

\* another secret than the configured one
wrong_secret(registry, bot_id) ==
  IF configured_secret(registry, bot_id) = Some(OperatorSecret)
  THEN Some(GeneratedSecret) ELSE Some(OperatorSecret)

\* the webhook calls: Telegram's (no API key), a client's that forwards an
\* update with an API key, and calls with a wrong key, secret or body
WebhookSamples(registry, bot_id) ==
  {[api_key |-> None, secret |-> configured_secret(registry, bot_id), json |-> TRUE,
    update_data |-> u] : u \in {Hello, CHOOSE x \in UpdateSamples : x.user_id = Some(8)}}
  \cup {[api_key |-> k, secret |-> configured_secret(registry, bot_id), json |-> TRUE,
          update_data |-> u] : k \in GoodHeaders, u \in UpdateSamples}
  \cup {[api_key |-> Some(InvalidKey), secret |-> configured_secret(registry, bot_id),
          json |-> TRUE, update_data |-> Hello]}
  \cup {[api_key |-> k, secret |-> s, json |-> TRUE, update_data |-> Hello] :
          k \in {None} \cup GoodHeaders, s \in {None, wrong_secret(registry, bot_id)}}
  \cup {[api_key |-> k, secret |-> configured_secret(registry, bot_id), json |-> FALSE,
          update_data |-> Hello] : k \in GoodHeaders}

\* the request was served: r is the answer
BotApi(route, bot_id, api_key, secret, body, r) ==
  /\ r.task.some => Cardinality(background_tasks \cup {r.task.v}) <= MaxTasks
  /\ bots' = r.registry
  /\ config_file' = IF r.saved THEN _save_to_file(r.registry) ELSE config_file
  /\ background_tasks' =
       IF r.task.some THEN background_tasks \cup {r.task.v} ELSE background_tasks
  /\ event' = [NoEvent EXCEPT !.kind = "request", !.route = route, !.bot_id = bot_id,
                              !.api_key = api_key, !.secret = secret, !.body = body,
                              !.status = r.status, !.detail = r.detail,
                              !.queued = r.task.some]
  /\ UNCHANGED <<ENVIRONMENT, valid_keys, client, resp, crud_vars, scraper_vars,
               race_vars,
               service_vars>>

\* Telegram, or anyone, posts an update to the webhook of a bot
TelegramWebhook ==
  \E b \in BotIds :
    \E call \in WebhookSamples(bots, b) :
      BotApi("telegram_webhook", b, call.api_key, call.secret, <<>>,
             behind_middleware(valid_keys, ENVIRONMENT, bots, P_webhook(b), call.api_key,
                               telegram_webhook(bots, b, call.secret, call.json,
                                                call.update_data)))

BotsRegisterBot ==
  \E config \in BotCreateSamples, api_key \in {None} \cup GoodHeaders, get_me \in BOOLEAN :
    BotApi("bots_register_bot", config.bot_id, api_key, None, config,
           behind_middleware(valid_keys, ENVIRONMENT, bots, P_bots_register, api_key,
                             bots_register_bot(bots, config, get_me)))

WebhooksRegisterBot ==
  \E request \in BotCreateSamples, api_key \in GoodHeaders,
     get_me \in BOOLEAN :
    BotApi("webhooks_register_bot", request.bot_id, api_key, None, request,
           behind_middleware(valid_keys, ENVIRONMENT, bots, P_bots, api_key,
                             webhooks_register_bot(bots, request, get_me)))

RegisterBotsBulk ==
  \E list \in BulkSamples, api_key \in GoodHeaders :
    BotApi("register_bots_bulk", "", api_key, None, list,
           behind_middleware(valid_keys, ENVIRONMENT, bots, P_bots_register_bulk, api_key,
                             register_bots_bulk(bots, list)))

WebhooksUpdateBot ==
  \E b \in BotIds, update_data \in BotUpdateRequestSamples,
     api_key \in GoodHeaders :
    BotApi("webhooks_update_bot", b, api_key, None, update_data,
           behind_middleware(valid_keys, ENVIRONMENT, bots, P_bot(b), api_key,
                             webhooks_update_bot(bots, b, update_data)))

DeleteBot ==
  \E b \in BotIds, api_key \in GoodHeaders :
    BotApi("delete_bot", b, api_key, None, <<>>,
           behind_middleware(valid_keys, ENVIRONMENT, bots, P_bot(b), api_key,
                             delete_bot(bots, b)))

WebhooksSetupWebhooks ==
  \E secret \in {None, Some(OperatorSecret)}, ok \in {BotIds, {}},
     api_key \in GoodHeaders :
    BotApi("webhooks_setup_webhooks", "", api_key, None, [secret |-> secret],
           behind_middleware(valid_keys, ENVIRONMENT, bots, P_webhooks_setup, api_key,
                             webhooks_setup_webhooks(bots, "https://host", secret,
                                                     GeneratedSecret, ok)))

\* a queued background task runs: command_handler.handle_update
HandleUpdate ==
  \E task \in background_tasks, site \in {"ok", "raise"} :
    LET done == handle_update(bots, task.bot_id, task.update_data, site)
    IN /\ background_tasks' = background_tasks \ {task}
       /\ event' = [NoEvent EXCEPT !.kind = "update", !.bot_id = task.bot_id,
                                   !.bot = IF task.bot_id \in DOMAIN bots
                                           THEN Some(bots[task.bot_id]) ELSE None,
                                   !.update = task.update_data,
                                   !.result = done.result, !.scraped = done.scraped]
       /\ UNCHANGED <<ENVIRONMENT, valid_keys, client, resp, crud_vars, bot_vars,
                    scraper_vars, race_vars,
               service_vars>>

InitTelegram ==
  /\ ENVIRONMENT = "production"
  /\ IdleAuth
  /\ IdleCrud
  /\ IdleBots
  /\ IdleScrapers
  /\ IdleTelegram
  /\ IdleRace
  /\ IdleServices

NextTelegram ==
  \/ TelegramWebhook \/ BotsRegisterBot \/ WebhooksRegisterBot \/ RegisterBotsBulk
  \/ WebhooksUpdateBot \/ DeleteBot \/ WebhooksSetupWebhooks \/ HandleUpdate

(***************************************************************************)
(* Properties of the command handler and the bot API                       *)
(***************************************************************************)
\* the command of the update handled last, in lower case (<<>>: none)
HandledCommand ==
  IF from_dict(event.update).command.some
  THEN str_lower(from_dict(event.update).command.v) ELSE <<>>

\* C15: handle_update calls selenium_scraper.scrape or scrape_multiple only
\* if the bot is registered and active, the sender is no bot, the sender is
\* in the bot's allowed_users or that list is empty, and the command, if
\* the update is one, is in the bot's allowed_commands
C15_ScrapesOnlyWhenPermitted ==
  (event.kind = "update" /\ event.scraped # "none") =>
    /\ event.bot.some
    /\ event.bot.v.is_active
    /\ ~event.update.is_bot
    /\ \/ event.bot.v.allowed_users = <<>>
       \/ /\ event.update.user_id.some
          /\ \E i \in DOMAIN event.bot.v.allowed_users :
               event.bot.v.allowed_users[i] = event.update.user_id.v
    /\ HandledCommand # <<>> =>
         \E i \in DOMAIN event.bot.v.allowed_commands :
           Chars[event.bot.v.allowed_commands[i]] = HandledCommand

\* a listed user's /scrape command was run for a bot that lists its users
C15_Witness ==
  /\ event.kind = "update"
  /\ event.scraped = "scrape"
  /\ event.bot.some
  /\ event.bot.v.allowed_users = <<7>>
  /\ HandledCommand = Chars["scrape"]

\* C16: the webhook call Telegram makes for a registered bot (the secret
\* given to setWebhook, no X-API-Key header) is answered 200 and its update
\* is queued for handle_update
C16_AsStated ==
  (/\ event.kind = "request"
   /\ event.route = "telegram_webhook"
   /\ ~event.api_key.some
   /\ event.bot_id \in DOMAIN bots
   /\ event.secret = bots[event.bot_id].webhook_secret)
  => (event.status = 200 /\ event.queued)

\* C17: a webhook call with no secret or another secret than the one the
\* bot has configured is answered 403, a call for a bot that is not
\* registered 404, and neither queues an update
C17_AsStated ==
  (event.kind = "request" /\ event.route = "telegram_webhook") =>
    /\ (/\ event.bot_id \in DOMAIN bots
        /\ bots[event.bot_id].webhook_secret.some
        /\ event.secret # bots[event.bot_id].webhook_secret)
       => (event.status = 403 /\ ~event.queued)
    /\ event.bot_id \notin DOMAIN bots => (event.status = 404 /\ ~event.queued)

\* the request e asks to register bot b
Registers(e, b) ==
  /\ e.kind = "request"
  /\ \/ e.route \in {"bots_register_bot", "webhooks_register_bot"} /\ e.bot_id = b
     \/ e.route = "register_bots_bulk" /\ \E i \in DOMAIN e.body : e.body[i].bot_id = b

\* C18: a registration request for a bot_id that is registered, on any of
\* the three registration routes, leaves that bot as it is
C18_AsStated ==
  [][\A b \in DOMAIN bots :
       Registers(event', b) => (b \in DOMAIN bots' /\ bots'[b] = bots[b])]_vars

\* C19: a bot registered through POST /bots/register is stored with the
\* allowed_commands, is_active and send_to_channel of the request
C19_AsStated ==
  (event.kind = "request" /\ event.route = "bots_register_bot" /\ event.status = 201) =>
    /\ bots[event.bot_id].allowed_commands = event.body.allowed_commands
    /\ bots[event.bot_id].is_active = event.body.is_active
    /\ bots[event.bot_id].send_to_channel = event.body.send_to_channel

(***************************************************************************)
(* Requests to the bot API interleaved at their await points.  The event   *)
(* loop runs one handler at a time from one suspension to the next; a      *)
(* handler is suspended while it waits for BotManager._lock, for Telegram  *)
(* (get_me) and for the HTTP client to close (aclose), which update_bot    *)
(* and unregister_bot await with the lock held.  An asyncio.Lock that is   *)
(* free is taken without a suspension; released, it goes to the request    *)
(* that has waited longest.  requests[i].pc is where request i stands:     *)
(*   "start"          received, the handler has not run                    *)
(*   "lock"           waiting for the lock in register_bot or update_bot   *)
(*   "get_me"         registered, waiting for Telegram's answer            *)
(*   "lock_rollback"  waiting for the lock in unregister_bot               *)
(*   "close"          holding the lock, waiting for aclose                 *)
(*   "done"           answered with requests[i].status                     *)
(* A BotConfig object is known by the request that made it and the bot it  *)
(* was made for; requests[i].config is the object update_bot holds in its  *)
(* local variable config while it waits for aclose.                        *)
(***************************************************************************)
MaxRequests == 3   \* requests received over a run

NewRequest(op, route, bot_id, body) ==
  [op |-> op, route |-> route, bot_id |-> bot_id, body |-> body, pc |-> "start",
   status |-> 0, config |-> <<>>]

\* the settings load_from_env reads: BOTS_CONFIG with an entry for bot2 and
\* one that lacks its channel_id, and the single bot of TELEGRAM_BOT_TOKEN
EnvSamples ==
  {[BOTS_CONFIG |-> Some(<<[bot_id |-> "bot2", bot_token |-> "444:DDD",
                            channel_id |-> "@env", allowed_users |-> <<7>>],
                           [bot_id |-> "bot3", bot_token |-> "555:EEE"]>>),
    TELEGRAM_BOT_TOKEN |-> "666:FFF", TELEGRAM_CHANNEL_ID |-> "@default"]}

\* the requests sent: for bot1 POST /bots/register by one operator and
\* POST /bots by another, for bot2 POST /bots/register and PATCH /bots/bot2;
\* and a call of load_from_env
RaceSamples ==
  {NewRequest("register",
              IF c.bot_name = "One" THEN "bots_register_bot" ELSE "webhooks_register_bot",
              c.bot_id, c) : c \in BotCreateSamples}
  \cup {NewRequest("register", "bots_register_bot", "bot2",
                   [bot_id |-> "bot2", bot_token |-> "333:CCC", bot_name |-> "Other",
                    channel_id |-> "@other", allowed_users |-> <<>>,
                    allowed_commands |-> DefaultCommands, is_active |-> TRUE,
                    default_wait_time |-> 5, default_timeout |-> 30,
                    take_screenshot |-> TRUE, send_to_channel |-> TRUE]),
        NewRequest("update", "webhooks_update_bot", "bot2", [is_active |-> FALSE])}
  \cup {NewRequest("load", "load_from_env", "", e) : e \in EnvSamples}

\* Lock.release(): the lock goes to the first waiter, if there is one
release(waiters) ==
  IF waiters = <<>> THEN [holder |-> 0, waiters |-> <<>>]
  ELSE [holder |-> Head(waiters), waiters |-> Tail(waiters)]

\* the object made by request i for bot b
Made(i, b) == <<i, b>>

\* request i runs up to its next suspension or its answer; a request that
\* goes on to get_me has put a new BotConfig in _bots, one that goes on to
\* aclose in update_bot keeps the BotConfig it found there
Step(i, pc, status, registry, saved, open, lock) ==
  /\ requests' = [requests EXCEPT
                    ![i].pc = pc, ![i].status = status,
                    ![i].config = IF pc = "close" /\ requests[i].op = "update"
                                  THEN config_id[requests[i].bot_id] ELSE @]
  /\ bots' = registry
  /\ config_id' = IF pc = "get_me"
                  THEN Put(config_id, requests[i].bot_id, Made(i, requests[i].bot_id))
                  ELSE Drop(config_id, DOMAIN config_id \ DOMAIN registry)
  /\ config_file' = IF saved THEN _save_to_file(registry) ELSE config_file
  /\ clients' = open
  /\ lock_holder' = lock.holder
  /\ lock_waiters' = lock.waiters
  /\ UNCHANGED <<ENVIRONMENT, valid_keys, client, resp, crud_vars, scraper_vars,
               telegram_vars, service_vars>>

Unlocked == release(lock_waiters)
Keeping(i) == [holder |-> i, waiters |-> lock_waiters]
Queued(i) == [holder |-> lock_holder, waiters |-> Append(lock_waiters, i)]
Untouched == [holder |-> lock_holder, waiters |-> lock_waiters]

\* BotManager.register_bot with the lock, then the handler up to
\* await client.get_me(), which opens the HTTP client of the new entry
register_locked(i) ==
  Step(i, "get_me", 0,
       IF requests[i].route = "webhooks_register_bot"
       THEN webhooks_register_call(bots, requests[i].body)
       ELSE bots_register_call(bots, requests[i].body),
       TRUE,
       Put(clients, requests[i].bot_id,
           [open |-> TRUE, config |-> Made(i, requests[i].bot_id)]),
       Unlocked)

\* BotManager.unregister_bot with the lock, up to await close() if the
\* client is open
unregister_locked(i) ==
  IF requests[i].bot_id \notin DOMAIN bots
  THEN Step(i, "done", 400, bots, FALSE, clients, Unlocked)
  ELSE IF requests[i].bot_id \in DOMAIN clients /\ clients[requests[i].bot_id].open
  THEN Step(i, "close", 0, bots, FALSE, clients, Keeping(i))
  ELSE Step(i, "done", 400, unregister_bot(bots, requests[i].bot_id), TRUE,
            Drop(clients, {requests[i].bot_id}), Unlocked)

\* BotManager.update_bot with the lock, up to await close() if the client
\* is open; the handler reads updated_bot.bot_id of the None it gets when
\* the bot is gone
update_locked(i) ==
  IF requests[i].bot_id \notin DOMAIN bots
  THEN Step(i, "done", 500, bots, FALSE, clients, Unlocked)
  ELSE IF requests[i].bot_id \in DOMAIN clients /\ clients[requests[i].bot_id].open
  THEN Step(i, "close", 0, update_bot(bots, requests[i].bot_id, requests[i].body),
            FALSE, clients, Keeping(i))
  ELSE Step(i, "done", 200, update_bot(bots, requests[i].bot_id, requests[i].body),
            TRUE,
            Put(clients, requests[i].bot_id,
                [open |-> FALSE, config |-> config_id[requests[i].bot_id]]),
            Unlocked)

Receive ==
  \E r \in RaceSamples :
    /\ Len(requests) < MaxRequests
    /\ requests' = Append(requests, r)
    /\ UNCHANGED <<ENVIRONMENT, valid_keys, client, resp, crud_vars, bot_vars,
                 scraper_vars, telegram_vars, service_vars, lock_holder,
                 lock_waiters, clients, config_id>>

\* register_bot of bots.py or of webhooks.py from its first line: the check
\* (409 or 400), then the call
RegisterStart ==
  \E i \in DOMAIN requests :
    /\ requests[i].op = "register" /\ requests[i].pc = "start"
    /\ IF requests[i].bot_id \in DOMAIN bots
       THEN Step(i, "done",
                 IF requests[i].route = "webhooks_register_bot" THEN 400 ELSE 409,
                 bots, FALSE, clients, Untouched)
       ELSE IF lock_holder = 0 THEN register_locked(i)
       ELSE Step(i, "lock", 0, bots, FALSE, clients, Queued(i))

RegisterWoken ==
  \E i \in DOMAIN requests :
    /\ requests[i].op = "register" /\ requests[i].pc = "lock"
    /\ lock_holder = i
    /\ register_locked(i)

\* result = await client.get_me(): 201, or unregister_bot and 400
GetMeAnswered ==
  \E i \in DOMAIN requests, ok \in BOOLEAN :
    /\ requests[i].pc = "get_me"
    /\ IF ok THEN Step(i, "done", 201, bots, FALSE, clients, Untouched)
       ELSE IF lock_holder = 0 THEN unregister_locked(i)
       ELSE Step(i, "lock_rollback", 0, bots, FALSE, clients, Queued(i))

RollbackWoken ==
  \E i \in DOMAIN requests :
    /\ requests[i].pc = "lock_rollback"
    /\ lock_holder = i
    /\ unregister_locked(i)

\* update_bot of webhooks.py, which serves PATCH /bots/{bot_id}
UpdateStart ==
  \E i \in DOMAIN requests :
    /\ requests[i].op = "update" /\ requests[i].pc = "start"
    /\ IF requests[i].bot_id \notin DOMAIN bots
       THEN Step(i, "done", 404, bots, FALSE, clients, Untouched)
       ELSE IF lock_holder = 0 THEN update_locked(i)
       ELSE Step(i, "lock", 0, bots, FALSE, clients, Queued(i))

UpdateWoken ==
  \E i \in DOMAIN requests :
    /\ requests[i].op = "update" /\ requests[i].pc = "lock"
    /\ lock_holder = i
    /\ update_locked(i)

\* aclose() returned: unregister_bot deletes the entry, update_bot makes a
\* new client; both save and leave the lock
Closed ==
  \E i \in DOMAIN requests :
    /\ requests[i].pc = "close"
    /\ IF requests[i].op = "register"
       THEN Step(i, "done", 400, unregister_bot(bots, requests[i].bot_id), TRUE,
                 Drop(clients, {requests[i].bot_id}), Unlocked)
       ELSE Step(i, "done", 200, bots, TRUE,
                 Put(clients, requests[i].bot_id,
                     [open |-> FALSE, config |-> requests[i].config]),
                 Unlocked)

\* bot_data.get(key, default)
get(bot_data, key, default) == IF key \in DOMAIN bot_data THEN bot_data[key] ELSE default

\* the BotConfig load_from_env makes of an entry of BOTS_CONFIG
env_config(bot_data) ==
  BotConfig(bot_data.bot_id, bot_data.bot_token,
            get(bot_data, "bot_name", bot_data.bot_id), bot_data.channel_id,
            get(bot_data, "allowed_users", <<>>), TRUE,
            [take_screenshot |-> get(bot_data, "take_screenshot", TRUE),
             send_to_channel |-> get(bot_data, "send_to_channel", TRUE),
             default_wait_time |-> get(bot_data, "default_wait_time", 5),
             default_timeout |-> get(bot_data, "default_timeout", 30)])

\* the entries of BOTS_CONFIG that are loaded: those before the first one
\* that lacks a key read with bot_data[...], where the KeyError ends the loop
RECURSIVE loaded_entries(_)
loaded_entries(bots_data) ==
  IF bots_data = <<>> THEN <<>>
  ELSE IF {"bot_id", "bot_token", "channel_id"} \subseteq DOMAIN Head(bots_data)
  THEN <<Head(bots_data)>> \o loaded_entries(Tail(bots_data))
  ELSE <<>>

\* the bots load_from_env puts in _bots and _clients, by bot_id (a later
\* entry for a bot_id over an earlier one), the single bot of
\* TELEGRAM_BOT_TOKEN among them if _bots has no "default"
RECURSIVE from_entries(_)
from_entries(entries) ==
  IF entries = <<>> THEN EmptyTable
  ELSE Put(from_entries(SubSeq(entries, 1, Len(entries) - 1)),
           entries[Len(entries)].bot_id, env_config(entries[Len(entries)]))

load_from_env(registry, settings) ==
  LET listed == IF settings.BOTS_CONFIG.some
                THEN from_entries(loaded_entries(settings.BOTS_CONFIG.v))
                ELSE EmptyTable
  IN IF /\ settings.TELEGRAM_BOT_TOKEN # "" /\ settings.TELEGRAM_CHANNEL_ID # ""
        /\ "default" \notin DOMAIN registry \cup DOMAIN listed
     THEN Put(listed, "default",
              BotConfig("default", settings.TELEGRAM_BOT_TOKEN, "Default Bot",
                        settings.TELEGRAM_CHANNEL_ID, <<>>, TRUE, <<>>))
     ELSE listed

\* load_from_env, which has no await and does not take the lock: each bot
\* it loads gets a new BotConfig and a new client; nothing is saved
LoadFromEnv ==
  \E i \in DOMAIN requests :
    /\ requests[i].op = "load" /\ requests[i].pc = "start"
    /\ LET new == load_from_env(bots, requests[i].body)
       IN /\ requests' = [requests EXCEPT ![i].pc = "done"]
          /\ bots' = [b \in DOMAIN bots \cup DOMAIN new |->
                       IF b \in DOMAIN new THEN new[b] ELSE bots[b]]
          /\ config_id' = [b \in DOMAIN bots \cup DOMAIN new |->
                            IF b \in DOMAIN new THEN Made(i, b) ELSE config_id[b]]
          /\ clients' = [b \in DOMAIN clients \cup DOMAIN new |->
                          IF b \in DOMAIN new
                          THEN [open |-> FALSE, config |-> Made(i, b)]
                          ELSE clients[b]]
    /\ UNCHANGED <<ENVIRONMENT, valid_keys, client, resp, crud_vars, config_file,
                 scraper_vars, telegram_vars, service_vars, lock_holder,
                 lock_waiters>>

InitRace ==
  /\ ENVIRONMENT = "production"
  /\ IdleAuth
  /\ IdleCrud
  /\ IdleBots
  /\ IdleScrapers
  /\ IdleTelegram
  /\ IdleRace
  /\ IdleServices

NextRace ==
  \/ Receive \/ RegisterStart \/ RegisterWoken \/ GetMeAnswered \/ RollbackWoken
  \/ UpdateStart \/ UpdateWoken \/ Closed \/ LoadFromEnv

(***************************************************************************)
(* Concurrent registrations                                                *)
(***************************************************************************)
Registrations(b) ==
  {i \in DOMAIN requests : requests[i].op = "register" /\ requests[i].bot_id = b}

\* C20: of the registration requests for one bot_id that are in progress
\* together at most one is answered 201, and once every request is answered
\* the registry holds the configuration of the one that was
C20_AsStated ==
  \A i \in DOMAIN requests :
    (requests[i].op = "register" /\ requests[i].status = 201) =>
      /\ \A j \in Registrations(requests[i].bot_id) \ {i} : requests[j].status # 201
      /\ (/\ \A k \in DOMAIN requests : requests[k].pc = "done"
          /\ \A k \in DOMAIN requests :
               /\ requests[k].op = "update" => requests[k].bot_id # requests[i].bot_id
               /\ requests[k].op # "load")
         => /\ requests[i].bot_id \in DOMAIN bots
            /\ bots[requests[i].bot_id].bot_name = requests[i].body.bot_name
            /\ bots[requests[i].bot_id].bot_token = requests[i].body.bot_token

(***************************************************************************)
(* Registration rollback                                                   *)
(***************************************************************************)
\* request i is answered 400 in this step after its token was refused
RolledBack(i) ==
  /\ requests[i].op = "register"
  /\ requests[i].pc \in {"get_me", "lock_rollback", "close"}
  /\ requests'[i].pc = "done"
  /\ requests'[i].status = 400

max_requests_per_minute == 10

MaxTicks == 2        \* how often the clock moves on over a run
MaxForwarded == 11   \* requests that go out over a run

\* how far the clock moves on: half a minute, a minute, a day
Delays == {30, 60, 86400}

\* timedelta.seconds of a difference that is not negative: the seconds
\* within the day, the days left out
seconds(delta) == delta % 86400

\* self._request_times = [t for t in self._request_times if (now - t).seconds < 60]
pruned(times, at) == SelectSeq(times, LAMBDA t : seconds(at - t) < 60)

\* TelegramBotClient._check_rate_limit
_check_rate_limit(times, at) ==
  [times |-> pruned(times, at),
   ok |-> Len(pruned(times, at)) < max_requests_per_minute]

\* TelegramBotClient._make_request up to the HTTP call: the times kept and
\* whether the request goes out
_make_request(times, at) ==
  IF ~_check_rate_limit(times, at).ok
  THEN [times |-> _check_rate_limit(times, at).times, forwarded |-> FALSE,
        answer |-> "Rate limit exceeded"]
  ELSE [times |-> Append(_check_rate_limit(times, at).times, at),
        forwarded |-> TRUE, answer |-> "sent"]

RateFrame ==
  UNCHANGED <<ENVIRONMENT, valid_keys, client, resp, crud_vars, bot_vars, scraper_vars,
              telegram_vars, race_vars, scraping, selenium, signin>>

\* send_message, get_me or any other method of the client
MakeRequest ==
  LET r == _make_request(limiter._request_times, limiter.now)
  IN /\ r.forwarded => Len(limiter.forwarded) < MaxForwarded
     /\ limiter' = [limiter EXCEPT !._request_times = r.times,
                                   !.forwarded = IF r.forwarded
                                                 THEN Append(@, limiter.now) ELSE @,
                                   !.answer = r.answer]
     /\ RateFrame

\* update_bot, or a registration over the bot, puts a new TelegramBotClient
\* in _clients: self._clients[bot_id] = TelegramBotClient(config)
NewClient ==
  /\ limiter' = [limiter EXCEPT !._request_times = <<>>, !.answer = "none"]
  /\ RateFrame

ClockMoves ==
  \E d \in Delays :
    /\ limiter.ticks < MaxTicks
    /\ limiter' = [limiter EXCEPT !.now = @ + d, !.ticks = @ + 1, !.answer = "none"]
    /\ RateFrame

InitRate ==
  /\ ENVIRONMENT = "production"
  /\ IdleAuth
  /\ IdleCrud
  /\ IdleBots
  /\ IdleScrapers
  /\ IdleTelegram
  /\ IdleRace
  /\ IdleServices

NextRate == MakeRequest \/ NewClient \/ ClockMoves

\* the requests that went out in the 60 seconds from time t on
InWindow(t) ==
  {j \in DOMAIN limiter.forwarded :
     limiter.forwarded[j] >= t /\ limiter.forwarded[j] < t + 60}

\* C22: in no window of 60 seconds more than max_requests_per_minute
\* requests of the bot go out to Telegram
C22_AsStated ==
  \A i \in DOMAIN limiter.forwarded :
    Cardinality(InWindow(limiter.forwarded[i])) <= max_requests_per_minute

\* C23: a request is answered 'Rate limit exceeded' only if at least
\* max_requests_per_minute requests went out in the 60 seconds before it
C23_AsStated ==
  limiter.answer = "Rate limit exceeded" =>
    Cardinality({j \in DOMAIN limiter.forwarded :
                   limiter.now - limiter.forwarded[j] < 60}) >= max_requests_per_minute

(***************************************************************************)
(* Claims about the registry and its file                                  *)
(***************************************************************************)
\* an API operation that changes the configuration of a bot
ConfigOperation ==
  \/ RegisterBot \/ UpdateBot \/ UnregisterBot
  \/ SetupWebhooks \/ RemoveAllWebhooks
  \/ SetupBotWebhook \/ RemoveBotWebhook

\* C24: when an operation that changes a bot's configuration has completed,
\* the file holds the bots of the registry with the values of their saved
\* fields
C24_AsStated == [][ConfigOperation => config_file' = _save_to_file(bots')]_vars

(***************************************************************************)
(* The registry and the clients                                            *)
(***************************************************************************)
\* C25: at every await point _bots and _clients have the same keys, the
\* BotConfig kept under a key has that key as its bot_id, and the client
\* kept under a key holds the very BotConfig that _bots keeps under it
C25_AsStated ==
  /\ DOMAIN bots = DOMAIN clients
  /\ \A k \in DOMAIN bots :
       /\ bots[k].bot_id = k
       /\ k \in DOMAIN clients => clients[k].config = config_id[k]

(***************************************************************************)
(* /scrape and /cancel (app/services/command_handler.py).  A scrape runs   *)
(* in the executor from await selenium_scraper.scrape(...) of _cmd_scrape  *)
(* until the result is back; updates that arrive meanwhile are handled.    *)
(* scraping.running counts the scrapes that run for a bot and a user,      *)
(* scraping._scraping_tasks holds the keys of CommandHandler._scraping_    *)
(* tasks, scraping.last is the last command handled.                       *)
(***************************************************************************)
MaxScrapes == 2   \* scrapes running together for one bot and one user

CancelUsers == {7, 8}

ScrapeUpdate(u) ==
  [user_id |-> Some(u), is_bot |-> FALSE, text |-> <<47, 115, 99, 114, 97, 112, 101, 32, 104, 116, 116, 112, 115, 58, 47, 47, 97, 46, 105, 111>>]
CancelUpdate(u) == [user_id |-> Some(u), is_bot |-> FALSE, text |-> <<47, 99, 97, 110, 99, 101, 108>>]

\* task_key = f"{bot.bot_id}:{update.user_id}"
task_key(bot_id, user_id) == <<bot_id, user_id>>

\* the scrapes that run under a key
Running(key) == IF key \in DOMAIN scraping.running THEN scraping.running[key] ELSE 0

\* _cmd_cancel: the task under the key is cancelled and forgotten, or there
\* is none
_cmd_cancel(tasks, key) ==
  IF key \in tasks
  THEN [tasks |-> tasks \ {key}, cancelled |-> TRUE, answer |-> "Task cancelled"]
  ELSE [tasks |-> tasks, cancelled |-> FALSE, answer |-> "No active task"]

CancelFrame ==
  UNCHANGED <<ENVIRONMENT, valid_keys, client, resp, crud_vars, bot_vars, scraper_vars,
              telegram_vars, race_vars, limiter, selenium, signin>>

\* handle_update for /scrape <url> up to await selenium_scraper.scrape(...);
\* _cmd_scrape makes no task and writes nothing to _scraping_tasks
ScrapeStarts ==
  \E b \in DOMAIN bots, u \in CancelUsers :
    /\ handle_update(bots, b, ScrapeUpdate(u), "ok").scraped = "scrape"
    /\ Running(task_key(b, u)) < MaxScrapes
    /\ scraping' = [scraping EXCEPT
                      !.running = Put(@, task_key(b, u), Running(task_key(b, u)) + 1),
                      !.last = [kind |-> "scrape", bot_id |-> b, user_id |-> u,
                                answer |-> "Scraping...",
                                before |-> Running(task_key(b, u)),
                                cancelled |-> FALSE]]
    /\ CancelFrame

\* the executor is done with a scrape and _cmd_scrape sends the result
ScrapeEnds ==
  \E key \in DOMAIN scraping.running :
    /\ scraping.running[key] > 0
    /\ scraping' = [scraping EXCEPT !.running[key] = @ - 1]
    /\ CancelFrame

\* handle_update for /cancel
CancelCommand ==
  \E b \in DOMAIN bots, u \in CancelUsers :
    LET done == handle_update(bots, b, CancelUpdate(u), "ok")
        c == _cmd_cancel(scraping._scraping_tasks, task_key(b, u))
        reached == done.result = "cancel"
    IN /\ scraping' =
            [running |-> IF reached /\ c.cancelled
                         THEN Put(scraping.running, task_key(b, u),
                                  Running(task_key(b, u)) - 1)
                         ELSE scraping.running,
             _scraping_tasks |-> IF reached THEN c.tasks ELSE scraping._scraping_tasks,
             last |-> [kind |-> "cancel", bot_id |-> b, user_id |-> u,
                       answer |-> IF reached THEN c.answer ELSE done.result,
                       before |-> Running(task_key(b, u)),
                       cancelled |-> reached /\ c.cancelled]]
       /\ CancelFrame

InitCancel ==
  /\ ENVIRONMENT = "production"
  /\ IdleAuth
  /\ IdleCrud
  /\ IdleBots
  /\ IdleScrapers
  /\ IdleTelegram
  /\ IdleRace
  /\ IdleServices

NextCancel == BotsRegisterBot \/ ScrapeStarts \/ ScrapeEnds \/ CancelCommand

\* C26: /cancel from a user for whom a scrape runs on the bot cancels it and
\* is answered 'Task cancelled'; 'No active task' is answered only when no
\* scrape of the user runs on the bot
C26_AsStated ==
  scraping.last.kind = "cancel" =>
    /\ scraping.last.before > 0 =>
         scraping.last.cancelled /\ scraping.last.answer = "Task cancelled"
    /\ scraping.last.answer = "No active task" => scraping.last.before = 0

(***************************************************************************)
(* SeleniumScraper (app/services/scraper.py) and /batch.  What a call does *)
(* depends on how Chrome and the page behave for the URL:                  *)
(*   "ok"               the page loads                                     *)
(*   "timeout"          wait.until raises TimeoutException                 *)
(*   "webdriver"        driver.get raises WebDriverException               *)
(*   "unexpected"       another exception in the try block                 *)
(*   "no_chrome"        webdriver.Chrome raises in _create_driver          *)
(*   "configure_fails"  Chrome starts, set_page_load_timeout raises        *)
(*   "quit_fails"       the page loads, driver.quit raises                 *)
(***************************************************************************)
MaxUrls == 3   \* URLs of one call

Sites ==
  {"ok", "timeout", "webdriver", "unexpected", "no_chrome", "configure_fails",
   "quit_fails"}

BatchUrls == <<"https://a.io", "http://b.io", "https://c.io", "http://d.io">>

\* _create_driver: the driver, or the exception, with a browser started or not
_create_driver(site) ==
  IF site = "no_chrome" THEN [raised |-> TRUE, started |-> FALSE]
  ELSE IF site = "configure_fails" THEN [raised |-> TRUE, started |-> TRUE]
  ELSE [raised |-> FALSE, started |-> TRUE]

\* _scrape_sync: driver = self._create_driver() stands before the try; the
\* except clauses fill result["error"]; finally: driver.quit()
_scrape_sync(url, site) ==
  IF _create_driver(site).raised
  THEN [raised |-> TRUE, result |-> <<>>,
        left_open |-> IF _create_driver(site).started THEN 1 ELSE 0]
  ELSE IF site = "quit_fails"
  THEN [raised |-> TRUE, result |-> <<>>, left_open |-> 1]
  ELSE [raised |-> FALSE,
        result |-> [url |-> url, success |-> site = "ok",
                    error |-> IF site = "ok" THEN None
                              ELSE IF site = "timeout"
                              THEN Some("Timeout waiting for page element")
                              ELSE IF site = "webdriver" THEN Some("WebDriver error")
                              ELSE Some("Unexpected error")],
        left_open |-> 0]

\* scrape: _scrape_sync in the executor, its exception raised by the await
scrape(url, site) == _scrape_sync(url, site)

\* scrape_multiple: asyncio.gather over the calls of scrape, which returns
\* the results in the order of the URLs or raises what the first failing
\* call raised
scrape_multiple(urls, sites) ==
  LET each == [i \in DOMAIN urls |-> scrape(urls[i], sites[i])]
      RECURSIVE open(_)
      open(i) == IF i = 0 THEN 0 ELSE each[i].left_open + open(i - 1)
  IN IF \E i \in DOMAIN urls : each[i].raised
     THEN [raised |-> TRUE, results |-> <<>>, left_open |-> open(Len(urls))]
     ELSE [raised |-> FALSE, results |-> [i \in DOMAIN urls |-> each[i].result],
           left_open |-> 0]

\* _cmd_batch from results = await selenium_scraper.scrape_multiple(...),
\* which stands in no try, to the summary
_cmd_batch_summary(urls, sites) ==
  LET r == scrape_multiple(urls, sites)
      successful == Cardinality({i \in DOMAIN r.results : r.results[i].success})
  IN IF r.raised THEN [raised |-> TRUE, answer |-> None]
     ELSE [raised |-> FALSE,
           answer |-> Some([successful |-> successful,
                            failed |-> Len(r.results) - successful,
                            total |-> Len(r.results)])]

\* the sites of the first n URLs
SiteLists == UNION {[1..n -> Sites] : n \in 1..MaxUrls}

SeleniumFrame ==
  UNCHANGED <<ENVIRONMENT, valid_keys, client, resp, crud_vars, bot_vars, scraper_vars,
              telegram_vars, race_vars, limiter, scraping, signin>>

Scrape ==
  \E site \in Sites :
    LET r == scrape(BatchUrls[1], site)
    IN /\ selenium' = [call |-> "scrape", sites |-> <<site>>,
                       results |-> IF r.raised THEN <<>> ELSE <<r.result>>,
                       raised |-> r.raised, left_open |-> r.left_open,
                       answer |-> None]
       /\ SeleniumFrame

ScrapeMultiple ==
  \E sites \in SiteLists :
    LET r == scrape_multiple(SubSeq(BatchUrls, 1, Len(sites)), sites)
    IN /\ selenium' = [call |-> "scrape_multiple", sites |-> sites,
                       results |-> r.results, raised |-> r.raised,
                       left_open |-> r.left_open, answer |-> None]
       /\ SeleniumFrame

CmdBatch ==
  \E sites \in SiteLists :
    LET r == scrape_multiple(SubSeq(BatchUrls, 1, Len(sites)), sites)
        s == _cmd_batch_summary(SubSeq(BatchUrls, 1, Len(sites)), sites)
    IN /\ selenium' = [call |-> "batch", sites |-> sites, results |-> r.results,
                       raised |-> s.raised, left_open |-> r.left_open,
                       answer |-> s.answer]
       /\ SeleniumFrame

InitSelenium ==
  /\ ENVIRONMENT = "production"
  /\ IdleAuth
  /\ IdleCrud
  /\ IdleBots
  /\ IdleScrapers
  /\ IdleTelegram
  /\ IdleRace
  /\ IdleServices

NextSelenium == Scrape \/ ScrapeMultiple \/ CmdBatch

\* C27: scrape never raises and leaves no browser open, a failure is
\* reported as success = False with error set; scrape_multiple returns one
\* result for each URL in the order of the URLs; /batch answers with a summary
C27_AsStated ==
  selenium.call # "none" =>
    /\ ~selenium.raised
    /\ selenium.left_open = 0
    /\ Len(selenium.results) = Len(selenium.sites)
    /\ \A i \in DOMAIN selenium.results :
         /\ selenium.results[i].url = BatchUrls[i]
         /\ selenium.results[i].success = (selenium.sites[i] = "ok")
         /\ ~selenium.results[i].success => selenium.results[i].error.some
    /\ selenium.call = "batch" => selenium.answer.some

(***************************************************************************)
(* The login of the console scrapers, step by step: PandaMasterScraper.    *)
(* login with solving_captcha of app/services/captcha/captcha.py, and      *)
(* MoolahScraper._login with _solve_captcha.  signin.pc is where the login *)
(* stands:                                                                 *)
(*   "loop"        at the head of for attempt in range(MAX_RETRIES)        *)
(*   "form"        in the try block, before the captcha                    *)
(*   "round"       at the head of the loop of the captcha solver           *)
(*   "capsolver"   before the CapSolver request of a round                 *)
(*   "twocaptcha"  before the 2Captcha request of a round                  *)
(*   "poll"        in the loop that asks 2Captcha for the answer           *)
(*   "given_up"    the solver has returned without an answer               *)
(*   "submit"      the answer is typed, before the login button            *)
(*   "except"      in except Exception of the retry loop                   *)
(*   "done"        login has returned or raised (signin.returned)          *)
(* attempt, rounds, capsolver, twocaptcha and polls count the attempts of  *)
(* the login, the rounds of the solver in the attempt, the requests of the *)
(* round and the polls of the 2Captcha request.                            *)
(***************************************************************************)
ConsoleScrapers == {"pandamaster", "moolah"}

SigninFrame ==
  UNCHANGED <<ENVIRONMENT, valid_keys, client, resp, crud_vars, bot_vars, scraper_vars,
              telegram_vars, race_vars, limiter, scraping, selenium>>

Returned(value) == [signin EXCEPT !.pc = "done", !.returned = value]

\* login() up to the retry loop: PandaMaster starts the browser if it has
\* none; both load the login page outside the try and return False
\* without credentials
Login ==
  \E s \in ConsoleScrapers, chrome \in BOOLEAN, loads \in BOOLEAN, creds \in BOOLEAN :
    /\ signin.pc = "idle"
    /\ signin' =
         IF s = "pandamaster" /\ ~chrome
         THEN [signin EXCEPT !.scraper = s, !.pc = "done", !.returned = "raised"]
         ELSE IF ~loads
         THEN [signin EXCEPT !.scraper = s, !.driver = "open", !.pc = "done",
                             !.returned = "raised"]
         ELSE IF ~creds
         THEN [signin EXCEPT !.scraper = s, !.driver = "open", !.pc = "done",
                             !.returned = "False"]
         ELSE [signin EXCEPT !.scraper = s, !.driver = "open", !.pc = "loop"]
    /\ SigninFrame

\* for attempt in range(self.MAX_RETRIES): ... return False
NextAttempt ==
  /\ signin.pc = "loop"
  /\ signin' = IF signin.attempt < MAX_RETRIES
               THEN [signin EXCEPT !.pc = "form", !.attempt = @ + 1, !.rounds = 0,
                                   !.i = 0, !.restart = FALSE]
               ELSE Returned("False")
  /\ SigninFrame

\* the user name, the password and the captcha image are found, or a wait
\* runs out
FillForm ==
  \E found \in BOOLEAN :
    /\ signin.pc = "form"
    /\ signin' = [signin EXCEPT !.pc = IF found THEN "round" ELSE "except"]
    /\ SigninFrame

\* while not answer and i < 2 (solving_captcha); for _ in range(2)
\* (_solve_captcha).  Past the loop solving_captcha returns what the last
\* request returned and _solve_captcha returns None, True
SolverRound ==
  /\ signin.pc = "round"
  /\ signin' = IF signin.i < 2
               THEN [signin EXCEPT !.pc = "capsolver", !.rounds = @ + 1,
                                   !.capsolver = 0, !.twocaptcha = 0, !.polls = 0]
               ELSE [signin EXCEPT !.pc = "given_up",
                                   !.restart = IF signin.scraper = "moolah"
                                               THEN TRUE ELSE @]
  /\ SigninFrame

\* the round has failed: img_element.click() and the next round, or in
\* _solve_captcha with restart set: return None, True
failed_round(restart) ==
  IF signin.scraper = "moolah" /\ restart
  THEN [signin EXCEPT !.pc = "given_up", !.restart = TRUE]
  ELSE [signin EXCEPT !.pc = "round", !.i = @ + 1, !.restart = restart]

\* capsolver_request: the text (solved), a text that is no number (invalid,
\* restart is set), no usable answer (error), or an exception of the
\* screenshot or of capsolver.solve
CapSolverRequest ==
  \E how \in {"solved", "invalid", "error", "raise"} :
    /\ signin.pc = "capsolver"
    /\ signin' =
         IF how = "raise" THEN [signin EXCEPT !.pc = "except"]
         ELSE IF how = "solved"
         THEN [signin EXCEPT !.pc = "submit", !.capsolver = @ + 1, !.restart = FALSE]
         ELSE [signin EXCEPT !.pc = "twocaptcha", !.capsolver = @ + 1,
                             !.restart = (how = "invalid")]
    /\ SigninFrame

\* twocaptcha_request: the POST to in.php, in a try.  When it fails,
\* captcha.py goes on with captcha_text = "error", which is no number
\* (restart), and _twocaptcha_request returns None, False, False
TwoCaptchaRequest ==
  \E posted \in BOOLEAN :
    /\ signin.pc = "twocaptcha"
    /\ signin' =
         IF posted THEN [signin EXCEPT !.pc = "poll", !.twocaptcha = @ + 1, !.polls = 0]
         ELSE [failed_round(signin.scraper = "pandamaster") EXCEPT !.twocaptcha = @ + 1]
    /\ SigninFrame

\* while timeout < 3 (captcha.py); for _ in range(3) (moolah.py): one GET
\* of res.php.  Past the loop captcha.py reads captcha_text, which is not
\* bound, and goes on with "error"; moolah.py returns None, False, False
PollTwoCaptcha ==
  \E answer \in {"CAPCHA_NOT_READY", "digits", "other"} :
    /\ signin.pc = "poll"
    /\ signin' =
         IF signin.polls >= 3 THEN failed_round(signin.scraper = "pandamaster")
         ELSE IF answer = "CAPCHA_NOT_READY" THEN [signin EXCEPT !.polls = @ + 1]
         ELSE IF answer = "digits"
         THEN [signin EXCEPT !.pc = "submit", !.polls = @ + 1, !.restart = FALSE]
         ELSE [failed_round(TRUE) EXCEPT !.polls = @ + 1]
    /\ SigninFrame

\* the solver returned without an answer.  login: if restart_required, a
\* new browser and the next attempt, else the result is typed all the
\* same; an exception of initialize_driver is caught and self.driver keeps
\* the session that was quit.  _login: return False
GivenUp ==
  \E chrome \in BOOLEAN :
    /\ signin.pc = "given_up"
    /\ signin' =
         IF signin.scraper = "moolah" THEN Returned("False")
         ELSE IF ~signin.restart THEN [signin EXCEPT !.pc = "submit"]
         ELSE IF chrome THEN [signin EXCEPT !.pc = "loop", !.driver = "open"]
         ELSE [signin EXCEPT !.pc = "except", !.driver = "quit"]
    /\ SigninFrame

\* the answer is typed and the button clicked: the dashboard URL is
\* reached (return True), the site answers "incorrect" (continue in login,
\* break in _login), or a wait runs out
Submit ==
  \E how \in {"in", "incorrect", "raise"} :
    /\ signin.pc = "submit"
    /\ signin' =
         IF how = "in" THEN [Returned("True") EXCEPT !.at_dashboard = TRUE]
         ELSE IF how = "raise" THEN [signin EXCEPT !.pc = "except"]
         ELSE IF signin.scraper = "moolah" THEN Returned("False")
         ELSE [signin EXCEPT !.pc = "loop"]
    /\ SigninFrame

\* except Exception: time.sleep(1); self.driver.get(login page), which
\* raises on a session that was quit or on a page that does not load
Except ==
  \E loads \in BOOLEAN :
    /\ signin.pc = "except"
    /\ signin' = IF loads /\ signin.driver = "open"
                 THEN [signin EXCEPT !.pc = "loop"]
                 ELSE Returned("raised")
    /\ SigninFrame

InitSignin ==
  /\ ENVIRONMENT = "production"
  /\ IdleAuth
  /\ IdleCrud
  /\ IdleBots
  /\ IdleScrapers
  /\ IdleTelegram
  /\ IdleRace
  /\ IdleServices

NextSignin ==
  \/ Login \/ NextAttempt \/ FillForm \/ SolverRound \/ CapSolverRequest
  \/ TwoCaptchaRequest \/ PollTwoCaptcha \/ GivenUp \/ Submit \/ Except

\* the counts of the claim
LoginBounded ==
  /\ signin.attempt <= MAX_RETRIES
  /\ signin.rounds <= 2
  /\ signin.capsolver <= 1
  /\ signin.twocaptcha <= 1
  /\ signin.polls <= 3

\* C28: a login makes at most MAX_RETRIES attempts, the solver at most 2
\* rounds in an attempt, a round at most one CapSolver and one 2Captcha
\* request, polled at most 3 times; login returns True only with the
\* dashboard reached and False in every other case
C28_AsStated ==
  /\ LoginBounded
  /\ signin.returned = "True" => signin.at_dashboard
  /\ (signin.pc = "done" /\ ~signin.at_dashboard) => signin.returned = "False"

(***************************************************************************)
(* Specifications                                                          *)
(***************************************************************************)
SpecAuth == InitAuth /\ [][NextAuth]_vars
SpecCrud == InitCrud /\ [][NextCrud]_vars
SpecBots == InitBots /\ [][NextBots]_vars
SpecScrapers == InitScrapers /\ [][NextScrapers]_vars
SpecTelegram == InitTelegram /\ [][NextTelegram]_vars
SpecRace == InitRace /\ [][NextRace]_vars
SpecRate == InitRate /\ [][NextRate]_vars
SpecCancel == InitCancel /\ [][NextCancel]_vars
SpecSelenium == InitSelenium /\ [][NextSelenium]_vars
SpecSignin == InitSignin /\ [][NextSignin]_vars

============================================================================
